---- MODULE Spec2Model ----
(***************************************************************************)
(* Coyote toolchain: the IR generator (coyotec/src/generator.rs) lowering  *)
(* a syntax tree to stack-machine code, and the virtual machine            *)
(* (cvm/src/vm.rs) executing the assembled image.                          *)
(*                                                                         *)
(* Rust vectors are 0-based; the sequences below are 1-based, so an index  *)
(* i of the source is element i + 1 here.  A Rust panic is the status      *)
(* "fatal" (generator: field fatal).                                       *)
(***************************************************************************)
EXTENDS Integers, Sequences, FiniteSets, TLC

VARIABLES
    phase,        \* "source" | "generated" | "image" | "loaded" | "scopes"
    tree,         \* the syntax tree handed to generate()
    gen,          \* the IrGenerator
    image,        \* the assembled image handed to Vm::add_code
    functions,    \* Vm.functions
    string_pool,  \* Vm.string_pool
    stack_frame,  \* Vm.stack_frame
    stack,        \* Vm.stack
    output,       \* lines written by print
    status,       \* "idle" | "running" | "halted" | "stopped" | "fatal" | "misdecoded"
    saved,        \* history: (scope, offset) recorded at each open push_scope
    popped,       \* history: the last closed push_scope/pop_scope pair
    probe         \* the Table, pool or opcode exercised on its own

vars == <<phase, tree, gen, image, functions, string_pool, stack_frame, stack,
          output, status, saved, popped, probe>>

vmvars == <<functions, string_pool, stack_frame, stack, output, status>>

\* ---------------------------------------------------------------- bounds
\* Vm stack cells modelled (STACK_SIZE of vm.rs scaled down)
StackSize == 24
\* frames modelled (FRAMES_DEPTH of vm.rs scaled down; the Vec itself grows)
MaxFrames == 5
\* FRAMES_DEPTH of vm.rs (1,024) scaled down, below the frames modelled
FRAMES_DEPTH == 3
\* lines of output kept
MaxOutput == 6
\* scope operations explored
MaxScope == 3
MaxVars == 2

\* ------------------------------------------------------- runtime objects
\* valuetypes.rs: Object { tag, data }.  Numeric data is an integer here.
Obj(tag, data) == [tag |-> tag, data |-> data, table |-> <<>>]
Nil == Obj("Nil", 0)
IntObj(n) == Obj("Integer", n)
FloatObj(n) == Obj("Float", n)
BoolObj(b) == Obj("Bool", IF b THEN 1 ELSE 0)
StrObj(i) == Obj("Text", i)

Panic == [tag |-> "Panic", data |-> 0, table |-> <<>>]
IsPanic(o) == o.tag = "Panic"

Numeric(t) == t \in {"Integer", "Float"}

\* f64 division of two integral values; a non-integral quotient is kept
\* scaled by 1000 and an x/0 as the marker 999999 (inf)
DivData(a, b) ==
    IF b = 0 THEN 999999
    ELSE IF a % b = 0 THEN a \div b
    ELSE (a * 1000) \div b

ArithData(op, a, b) ==
    CASE op = "add" -> a + b
      [] op = "sub" -> a - b
      [] op = "mul" -> a * b
      [] op = "div" -> DivData(a, b)

\* arithmetic that keeps the variant of the left operand
Arith_m(op, self, rhs) ==
    CASE self.tag = "Nil" /\ rhs.tag = "Nil" -> rhs
      [] Numeric(self.tag) /\ Numeric(rhs.tag) ->
            Obj(self.tag, ArithData(op, self.data, rhs.data))
      [] OTHER -> Panic

\* impl Add/Sub/Mul/Div for Object: self OP rhs
Arith(op, self, rhs) ==
    CASE self.tag = "Nil" /\ rhs.tag = "Nil" -> rhs
      [] self.tag = "Integer" /\ rhs.tag = "Integer" ->
            IntObj(ArithData(op, self.data, rhs.data))
      [] Numeric(self.tag) /\ Numeric(rhs.tag)
            /\ ~(self.tag = "Integer" /\ rhs.tag = "Integer") ->
            FloatObj(ArithData(op, self.data, rhs.data))
      [] OTHER -> Panic

\* impl PartialOrd for Object: lt, le, gt, ge.  The result is "T", "F" or
\* "panic"; (Float, _) and (_, Float) compare the raw payloads.
\* ordering in which le is the strict comparison
OrdData_m(op, a, b) ==
    CASE op = "lt" -> a < b
      [] op = "le" -> a < b
      [] op = "gt" -> a > b
      [] op = "ge" -> a >= b

OrdData(op, a, b) ==
    CASE op = "lt" -> a < b
      [] op = "le" -> a <= b
      [] op = "gt" -> a > b
      [] op = "ge" -> a >= b

PartialOrd(op, self, other) ==
    CASE self.tag = "Nil" /\ other.tag = "Nil" ->
            IF op \in {"le", "ge"} THEN "T" ELSE "F"
      [] (self.tag = "Integer" /\ other.tag = "Integer")
            \/ self.tag = "Float" \/ other.tag = "Float" ->
            IF OrdData(op, self.data, other.data) THEN "T" ELSE "F"
      [] OTHER -> "panic"

\* equality of the payloads alone
PartialEq_m(self, other) ==
    \/ self.tag \in {"Nil", "Array"} /\ self.tag = other.tag
    \/ self.data = other.data

\* impl PartialEq for Object
PartialEq(self, other) ==
    /\ self.tag = other.tag
    /\ \/ self.tag \in {"Nil", "Array"}
       \/ self.data = other.data

\* impl Neg for Object
ObjNeg(self) ==
    CASE self.tag = "Nil" -> self
      [] Numeric(self.tag) -> Obj(self.tag, 0 - self.data)
      [] OTHER -> Panic

\* ------------------------------------------------------------- ctable.rs
\* Table { array, array_length, hash }; hash is a set of <<key, value>>
\* with at most one pair per key, the key being index.to_string()
RECURSIVE Digits(_)
Digits(n) == IF n < 10 THEN <<n>> ELSE Append(Digits(n \div 10), n % 10)
to_string(n) == Digits(n)

TableNew == [array |-> <<>>, array_length |-> 0, hash |-> {}]

TablePush(t, v) ==
    [t EXCEPT !.array = Append(@, v), !.array_length = @ + 1]

hset(t, key, v) ==
    [t EXCEPT !.hash = {p \in @ : p[1] # key} \cup {<<key, v>>}]

TableSet(t, index, v) ==
    IF index < t.array_length THEN [t EXCEPT !.array[index + 1] = v]
    ELSE IF index = t.array_length
         THEN [t EXCEPT !.array_length = @ + 1, !.array = Append(@, v)]
         ELSE hset(t, to_string(index), v)

\* get looking in the hash before the array
TableGet_m(t, index) ==
    IF \E p \in t.hash : p[1] = to_string(index)
    THEN <<(CHOOSE p \in t.hash : p[1] = to_string(index))[2]>>
    ELSE IF index < t.array_length THEN <<t.array[index + 1]>>
         ELSE <<>>

\* Option<&T>: <<>> is None, <<v>> is Some(v)
TableGet(t, index) ==
    IF index < t.array_length THEN <<t.array[index + 1]>>
    ELSE IF \E p \in t.hash : p[1] = to_string(index)
         THEN <<(CHOOSE p \in t.hash : p[1] = to_string(index))[2]>>
         ELSE <<>>

ArrObj(t) == [tag |-> "Array", data |-> 0, table |-> <<t>>]

\* ------------------------------------------------------------ syntax tree
\* ast Node { node_type, children, token, can_assign }.  name carries the
\* String of Ident/Function/Call/Text and the operator of BinaryOp/UnaryOp,
\* num the value of Integer/Float/Boolean.
Node(type, name, num, children) ==
    [type |-> type, name |-> name, num |-> num, children |-> children,
     can_assign |-> FALSE]

\* ------------------------------------------------------------ generator.rs
NewSymbols == [list |-> <<>>, var_count |-> 0]

NewFunction(name) ==
    [name |-> name, arity |-> 0, instructions |-> <<>>,
     current_location |-> 0, slots |-> 0, constructed |-> FALSE]

NewLoopLocations ==
    [start_location |-> 0, exit_location |-> 0, continue_location |-> 0,
     breaks |-> <<>>, continue_breaks |-> <<>>]

NewGen ==
    [string_pool |-> <<>>, strings_index |-> 0, scope |-> 0, offset |-> 0,
     symbol_loc |-> <<NewSymbols>>, loop_stack |-> <<>>, loop_count |-> 0,
     functions |-> <<NewFunction("main")>>, func_ptr |-> 0, fatal |-> FALSE]

Fatal(g) == [g EXCEPT !.fatal = TRUE]

current_function(g) == g.functions[g.func_ptr + 1]

current_location(g) == current_function(g).current_location

add_slot(g) ==
    IF g.fatal THEN g ELSE [g EXCEPT !.functions[g.func_ptr + 1].slots = @ + 1]

\* instructions.len() - 1
get_instr_loc(g) == Len(current_function(g).instructions) - 1

get_loop_locations(g) ==
    IF g.loop_count >= 1 /\ g.loop_count <= Len(g.loop_stack)
    THEN g.loop_stack[g.loop_count]
    ELSE NewLoopLocations

push_loop(g) ==
    IF g.fatal THEN g
    ELSE [g EXCEPT !.loop_stack = Append(@, NewLoopLocations),
                   !.loop_count = @ + 1]

pop_loop(g) ==
    IF g.fatal THEN g
    ELSE IF g.loop_count = 0 THEN Fatal(g)
    ELSE [g EXCEPT !.loop_stack = SubSeq(@, 1, Len(@) - 1),
                   !.loop_count = @ - 1]

\* position(|x| x == name): 0-based index of the first match, -1 for None
position(list, name) ==
    IF \E i \in 1..Len(list) : list[i] = name
    THEN (CHOOSE i \in 1..Len(list) :
             list[i] = name /\ \A j \in 1..(i - 1) : list[j] # name) - 1
    ELSE -1

get_string_location(g, string) ==
    IF position(g.string_pool, string) # -1 THEN position(g.string_pool, string)
    ELSE g.strings_index

\* get_string_location that appends without searching
get_string_location_st_m(g, string) ==
    IF g.fatal THEN g
    ELSE [g EXCEPT !.string_pool = Append(@, string), !.strings_index = @ + 1]

get_string_location_st(g, string) ==
    IF g.fatal \/ position(g.string_pool, string) # -1 THEN g
    ELSE [g EXCEPT !.string_pool = Append(@, string), !.strings_index = @ + 1]

\* Symbols::register_symbol + offset: the slot returned
store_variable(g, name) == g.symbol_loc[g.scope + 1].var_count + g.offset

store_variable_st(g, name) ==
    IF g.fatal THEN g
    ELSE [g EXCEPT !.symbol_loc[g.scope + 1] =
                      [list |-> Append(@.list, name),
                       var_count |-> @.var_count + 1]]

RECURSIVE get_variable_from(_, _, _, _)
get_variable_from(g, name, i, offset) ==
    IF position(g.symbol_loc[i + 1].list, name) # -1
    THEN position(g.symbol_loc[i + 1].list, name) + offset
    ELSE IF i > 0
         THEN get_variable_from(g, name, i - 1,
                                offset - g.symbol_loc[i].var_count)
         ELSE -1

\* -1 stands for the panic "Variable not found in symbol loc"
get_variable(g, name) == get_variable_from(g, name, g.scope, g.offset)

push_scope(g) ==
    IF g.fatal THEN g
    ELSE [g EXCEPT !.scope = @ + 1,
                   !.symbol_loc = Append(@, NewSymbols),
                   !.offset = @ + g.symbol_loc[g.scope + 1].var_count]

\* pop_scope giving back the size of the scope it pops
pop_scope_m(g) ==
    IF g.fatal THEN g
    ELSE IF g.scope = 0 THEN Fatal(g)
    ELSE [g EXCEPT !.scope = @ - 1,
                   !.symbol_loc = SubSeq(@, 1, Len(@) - 1),
                   !.offset = @ - g.symbol_loc[g.scope + 1].var_count]

pop_scope(g) ==
    IF g.fatal THEN g
    ELSE IF g.scope = 0 THEN Fatal(g)
    ELSE [g EXCEPT !.scope = @ - 1,
                   !.symbol_loc = SubSeq(@, 1, Len(@) - 1),
                   !.offset = @ - g.symbol_loc[g.scope].var_count]

\* IrGenerator::push: code is kept as mnemonic and operand
\* push recording the operand length, without the opcode byte
ir_push_m(g, op, arg, size) ==
    IF g.fatal THEN g
    ELSE LET f == current_function(g)
             instr == [start_location |-> f.current_location,
                       instruction_size |-> size - 1, op |-> op, arg |-> arg,
                       comment |-> ""]
         IN  [g EXCEPT !.functions[g.func_ptr + 1] =
                 [f EXCEPT !.current_location = @ + size - 1,
                           !.instructions = Append(@, instr)]]

ir_push(g, op, arg, size) ==
    IF g.fatal THEN g
    ELSE LET f == current_function(g)
             instr == [start_location |-> f.current_location,
                       instruction_size |-> size, op |-> op, arg |-> arg,
                       comment |-> ""]
         IN  [g EXCEPT !.functions[g.func_ptr + 1] =
                 [f EXCEPT !.current_location = @ + size,
                           !.instructions = Append(@, instr)]]

\* patch writing a target one byte past the recorded location
patch_m(g, i, op, target) ==
    IF g.fatal THEN g
    ELSE IF i < 0 \/ i >= Len(current_function(g).instructions) THEN Fatal(g)
    ELSE [g EXCEPT !.functions[g.func_ptr + 1].instructions[i + 1] =
                      [@ EXCEPT !.op = op, !.arg = target + 1,
                                 !.comment = ""]]

\* self.current_function().instructions[i].code = format!("<op> <target>")
patch(g, i, op, target) ==
    IF g.fatal THEN g
    ELSE IF i < 0 \/ i >= Len(current_function(g).instructions) THEN Fatal(g)
    ELSE [g EXCEPT !.functions[g.func_ptr + 1].instructions[i + 1] =
                      [@ EXCEPT !.op = op, !.arg = target, !.comment = ""]]

\* the text after `;` in the code of instruction i
annotate(g, i, comment) ==
    IF g.fatal \/ i < 0 \/ i >= Len(current_function(g).instructions) THEN g
    ELSE [g EXCEPT !.functions[g.func_ptr + 1].instructions[i + 1].comment =
                      comment]

RECURSIVE patch_all(_, _, _, _, _, _)
\* for i in list { instructions[i].code = format!("<op> <target> ; <comment>") }
patch_all(g, list, k, op, target, comment) ==
    IF k > Len(list) THEN g
    ELSE patch_all(annotate(patch(g, list[k], op, target), list[k], comment),
                   list, k + 1, op, target, comment)

get_function_index(g, function_name) ==
    LET names == [i \in 1..Len(g.functions) |-> g.functions[i].name]
    IN  IF position(names, function_name) # -1
        THEN position(names, function_name)
        ELSE g.func_ptr + 1

get_function_index_st(g, function_name) ==
    LET names == [i \in 1..Len(g.functions) |-> g.functions[i].name]
    IN  IF g.fatal \/ position(names, function_name) # -1 THEN g
        ELSE [g EXCEPT !.functions = Append(@, NewFunction(function_name)),
                       !.func_ptr = @ + 1]

\* mnemonic written for a BinaryOp by format!("{}", op)
Mnemonic(op) ==
    CASE op = "Add" -> "add"
      [] op = "Sub" -> "sub"
      [] op = "Mul" -> "mul"
      [] op = "Div" -> "div"
      [] op = "Pow" -> "pow"
      [] op = "And" -> "and"
      [] op = "Or" -> "or"
      [] op = "EqualEqual" -> "eq"
      [] op = "NotEqual" -> "neq"
      [] op = "GreaterThan" -> "gt"
      [] op = "GreaterThanEqual" -> "ge"
      [] op = "LessThan" -> "lt"
      [] op = "LessThanEqual" -> "le"
      [] OTHER -> "or"

\* get_loop_locations taking the outermost loop
set_loop_m(g, field, v) ==
    IF g.fatal \/ g.loop_count < 1 \/ g.loop_count > Len(g.loop_stack) THEN g
    ELSE [g EXCEPT !.loop_stack[1][field] = v]

\* *self.get_loop_locations().<field> = v
set_loop(g, field, v) ==
    IF g.fatal \/ g.loop_count < 1 \/ g.loop_count > Len(g.loop_stack) THEN g
    ELSE [g EXCEPT !.loop_stack[g.loop_count][field] = v]

RECURSIVE generate_code(_, _), gen_children(_, _, _), gen_children_rev(_, _, _),
          while_children(_, _, _), function_children(_, _, _, _),
          params_children(_, _, _), for_children(_, _, _, _, _),
          if_children(_, _, _, _, _, _), ident_children(_, _, _, _)

\* for child in &node.children { self.generate_code(child) }
gen_children(ch, i, g) ==
    IF i > Len(ch) THEN g
    ELSE gen_children(ch, i + 1, generate_code(ch[i], g))

\* for child in node.children.iter().rev()
gen_children_rev(ch, i, g) ==
    IF i < 1 THEN g
    ELSE gen_children_rev(ch, i - 1, generate_code(ch[i], g))

\* NodeType::While, the loop over its children
while_children(ch, i, g) ==
    IF i > Len(ch) THEN g
    ELSE LET c == ch[i] IN
      while_children(ch, i + 1,
        CASE c.type = "Conditional" ->
               LET g1 == set_loop(g, "start_location", current_location(g))
                   g2 == gen_children(c.children, 1, g1)
                   g3 == ir_push(g2, "jmpfalse", 0, 1 + 4)
               IN  set_loop(g3, "exit_location", get_instr_loc(g3))
          [] c.type = "CodeBlock" ->
               LET g1 == gen_children(c.children, 1, g)
                   loc == get_loop_locations(g1).start_location
                   g2 == ir_push(g1, "jmp", loc, 1 + 4)
                   cur_loc == current_location(g2)
                   instr_loc == get_loop_locations(g2).exit_location
                   g3 == patch(g2, instr_loc, "jmpfalse", cur_loc)
                   breaks == get_loop_locations(g3).breaks
                   continues == get_loop_locations(g3).continue_breaks
                   g4 == patch_all(g3, continues, 1, "jmp", loc, "# continue")
               IN  patch_all(g4, breaks, 1, "jmp", cur_loc, "# break")
          [] OTHER -> g)

\* NodeType::Params
params_children(ch, i, g) ==
    IF i > Len(ch) THEN g
    ELSE params_children(ch, i + 1,
           IF ch[i].type = "Ident" /\ ~g.fatal
           THEN LET g1 == store_variable_st(g, ch[i].name)
                IN  [g1 EXCEPT !.functions[g1.func_ptr + 1].arity = @ + 1]
           ELSE g)

\* NodeType::Function, the loop over its children
function_children(ch, i, g, index) ==
    IF i > Len(ch) THEN g
    ELSE LET c == ch[i] IN
      function_children(ch, i + 1,
        CASE g.fatal -> g
          [] c.type = "Ident" ->
               [g EXCEPT !.functions[g.func_ptr + 1].name = c.name]
          [] c.type = "Params" -> params_children(c.children, 1, g)
          [] c.type = "CodeBlock" ->
               LET g1 == gen_children(c.children, 1, g)
               IN  IF index = 0 THEN ir_push(g1, "halt", 0, 1)
                   ELSE ir_push(g1, "return", 0, 1)
          [] OTHER -> Fatal(g),
        index)

\* NodeType::For, the loop over its children
for_children(ch, i, g, iter_var_location, iter2_var_location) ==
    IF i > Len(ch) THEN g
    ELSE LET c == ch[i] IN
      CASE c.type = "CodeBlock" ->
             LET g1 == set_loop(g, "start_location", current_location(g))
                 g2 == ir_push(g1, "load", iter_var_location, 1 + 2)
                 g3 == ir_push(g2, "load", iter2_var_location, 1 + 2)
                 g4 == add_slot(add_slot(g3))
                 g5 == ir_push(g4, "ge", 0, 1)
                 g6 == ir_push(g5, "jmpfalse", 0, 1 + 4)
                 g7 == set_loop(g6, "exit_location", get_instr_loc(g6))
                 g8 == gen_children(c.children, 1, g7)
                 g9 == set_loop(g8, "continue_location", current_location(g8))
                 g10 == ir_push(g9, "load", iter_var_location, 1 + 2)
                 g11 == ir_push(g10, "push", 1, 1 + 9)
                 g12 == ir_push(g11, "add", 0, 1)
                 g13 == ir_push(g12, "store", iter_var_location, 1 + 2)
             IN  for_children(ch, i + 1, g13,
                              iter_var_location, iter2_var_location)
        [] c.type = "Range" ->
             LET g1 == gen_children(c.children, 1, g)
                 g2 == ir_push(g1, "store", iter2_var_location, 1 + 2)
                 g3 == ir_push(g2, "store", iter_var_location, 1 + 2)
             IN  for_children(ch, i + 1, g3,
                              iter_var_location, iter2_var_location)
        [] c.type = "Ident" ->
             LET g1 == store_variable_st(g, c.name)
                 g2 == store_variable_st(g1, "$2")
             IN  for_children(ch, i + 1, g2,
                              store_variable(g, c.name),
                              store_variable(g1, "$2"))
        [] c.type = "EndFor" ->
             LET loc == get_loop_locations(g).start_location
                 g1 == ir_push(g, "jmp", loc, 1 + 4)
                 cur_loc == current_location(g1)
                 instr_loc == get_loop_locations(g1).exit_location
                 g2 == patch(g1, instr_loc, "jmpfalse", cur_loc)
                 breaks == get_loop_locations(g2).breaks
                 g3 == patch_all(g2, breaks, 1, "jmp", cur_loc, "break")
                 cloc == get_loop_locations(g3).continue_location
                 continues == get_loop_locations(g3).continue_breaks
             IN  for_children(ch, i + 1,
                              patch_all(g3, continues, 1, "jmp", cloc,
                                        "continue"),
                              iter_var_location, iter2_var_location)
        [] OTHER -> for_children(ch, i + 1, g,
                                 iter_var_location, iter2_var_location)

\* NodeType::If, the loop over its children
if_children(ch, i, g, jmp_false_loc, jmp_true_loc, has_else) ==
    IF i > Len(ch) THEN g
    ELSE LET c == ch[i] IN
      CASE c.type = "Conditional" ->
             LET g1 == gen_children(c.children, 1, g)
                 g2 == ir_push(g1, "jmpfalse", 0, 1 + 4)
             IN  if_children(ch, i + 1, g2, get_instr_loc(g2),
                             jmp_true_loc, has_else)
        [] c.type = "Else" ->
             LET g1 == ir_push(g, "jmp", 0, 1 + 4)
                 jt == get_instr_loc(g1)
                 g2 == patch(g1, jmp_false_loc, "jmpfalse",
                             current_location(g1))
                 g3 == gen_children(c.children, 1, g2)
             IN  if_children(ch, i + 1, g3, jmp_false_loc, jt, TRUE)
        [] c.type = "EndIf" ->
             if_children(ch, i + 1,
                         IF has_else
                         THEN patch(g, jmp_true_loc, "jmp", current_location(g))
                         ELSE g,
                         jmp_false_loc, jmp_true_loc, has_else)
        [] c.type = "CodeBlock" ->
             LET g1 == gen_children(c.children, 1, g)
                 g2 == patch(g1, jmp_false_loc, "jmpfalse",
                             current_location(g1))
             IN  if_children(ch, i + 1, g2, jmp_false_loc, jmp_true_loc,
                             has_else)
        [] OTHER -> if_children(ch, i + 1, g, jmp_false_loc, jmp_true_loc,
                                has_else)

\* NodeType::Ident, the loop over its children
ident_children(node, i, g, index) ==
    IF i > Len(node.children) THEN g
    ELSE LET child == node.children[i] IN
      ident_children(node, i + 1,
        IF child.type = "ArrayElement"
        THEN IF Len(child.children) = 0 THEN Fatal(g)
             ELSE LET g1 == generate_code(child.children[1], g)
                  IN  IF node.can_assign
                      THEN ir_push(g1, "astore", index, 1 + 2)
                      ELSE ir_push(g1, "index", index, 1 + 2)
        ELSE g,
        index)

generate_code(node, g) ==
    IF g.fatal THEN g
    ELSE CASE node.type \in {"Integer", "Float"} ->
                ir_push(g, "push", node.num, 1 + 9)
           [] node.type = "Text" ->
                ir_push(get_string_location_st(g, node.name), "spush",
                        get_string_location(g, node.name), 1 + 5)
           [] node.type = "Boolean" -> ir_push(g, "bpush", node.num, 1 + 2)
           [] node.type = "Break" ->
                IF g.loop_count > 0
                THEN LET g1 == annotate(ir_push(g, "jmp", 0, 1 + 4),
                                        get_instr_loc(g) + 1, "inner break")
                     IN  set_loop(g1, "breaks",
                            Append(get_loop_locations(g1).breaks,
                                   get_instr_loc(g1)))
                ELSE g
           [] node.type = "Continue" ->
                IF g.loop_count > 0
                THEN LET g1 == annotate(ir_push(g, "jmp", 0, 1 + 4),
                                        get_instr_loc(g) + 1, "inner continue")
                     IN  set_loop(g1, "continue_breaks",
                            Append(get_loop_locations(g1).continue_breaks,
                                   get_instr_loc(g1)))
                ELSE g
           [] node.type = "Block" -> push_scope(g)
           [] node.type = "EndBlock" -> pop_scope(g)
           [] node.type = "While" ->
                pop_loop(while_children(node.children, 1, push_loop(g)))
           [] node.type = "Function" ->
                LET index == get_function_index(g, node.name)
                    g1 == [get_function_index_st(g, node.name)
                              EXCEPT !.func_ptr = index]
                    g2 == push_scope(g1)
                    g3 == function_children(node.children, 1, g2, index)
                IN  IF g3.fatal THEN g3
                    ELSE pop_scope(
                           [g3 EXCEPT
                              !.functions[g3.func_ptr + 1].constructed = TRUE,
                              !.func_ptr = 0])
           [] node.type = "For" ->
                pop_loop(for_children(node.children, 1, push_loop(g), 0, 0))
           [] node.type = "BinaryOp" ->
                LET g1 == gen_children(node.children, 1, g)
                IN  IF node.name = "Assign" THEN g1
                    ELSE ir_push(g1, Mnemonic(node.name), 0, 1)
           [] node.type = "UnaryOp" ->
                ir_push(gen_children(node.children, 1, g), "neg", 0, 1)
           [] node.type = "Let" ->
                IF Len(node.children) = 0 \/ node.children[1].type # "Ident"
                THEN Fatal(g)
                ELSE LET g1 == add_slot(g)
                         n == node.children[1]
                         location == store_variable(g1, n.name)
                         g2 == store_variable_st(g1, n.name)
                     IN  IF Len(n.children) > 0
                         THEN ir_push(generate_code(n.children[1], g2),
                                      "store", location, 1 + 2)
                         ELSE g2
           [] node.type = "Print" ->
                ir_push(gen_children(node.children, 1, g), "print", 0, 1)
           [] node.type = "Call" ->
                LET g1 == gen_children(node.children, 1, g)
                IN  ir_push(get_function_index_st(g1, node.name), "call",
                            get_function_index(g1, node.name), 1 + 2)
           [] node.type = "Ident" ->
                LET index == get_variable(g, node.name)
                IN  IF index = -1 THEN Fatal(g)
                    ELSE IF Len(node.children) > 0
                    THEN ident_children(node, 1, g, index)
                    ELSE IF node.can_assign
                         THEN ir_push(g, "store", index, 1 + 2)
                         ELSE ir_push(g, "load", index, 1 + 2)
           [] node.type = "Array" ->
                ir_push(gen_children_rev(node.children, Len(node.children), g),
                        "newarray", Len(node.children), 1 + 2)
           [] node.type = "If" ->
                if_children(node.children, 1, g, 0, 0, FALSE)
           [] node.type = "Root" -> gen_children(node.children, 1, g)
           [] OTHER -> g

\* generate(): IrGenerator::new followed by generate_code
generate(node) == generate_code(node, NewGen)

\* Function::calculate_bytes
RECURSIVE SumSizes(_, _)
SumSizes(instrs, i) ==
    IF i > Len(instrs) THEN 0
    ELSE instrs[i].instruction_size + SumSizes(instrs, i + 1)

calculate_bytes(f) == SumSizes(f.instructions, 1)

\* IrGenerator::clear
clear(g) ==
    IF g.fatal THEN g
    ELSE [g EXCEPT !.functions[g.func_ptr + 1].instructions = <<>>]

\* IrGenerator::generate: clear, then lower the tree
ir_generate(g, node) == generate_code(node, clear(g))

\* ------------------------------------------------------------ constants.rs
INSTRUCTIONS ==
    <<"halt", "push", "add", "sub", "mul", "div", "set", "store", "pop",
      "cmp", "print", "neg", "const", "newarray", "load", "spush", "index",
      "astore", "if", "else", "elseif", "endif", "eq", "neq", "gt", "ge",
      "lt", "le", "and", "or", "jmpfalse", "jmp", "for", "while", "nop",
      "call", "return", "bpush">>

\* enum Instruction, in declaration order; the discriminant of a variant is
\* its position counted from 0
Variants ==
    <<"Halt", "Push", "Add", "Sub", "Mul", "Div", "Set", "Store", "Pop",
      "Cmp", "Print", "Neg", "Const", "NewArray", "Load", "SPush", "Index",
      "AStore", "If", "Else", "ElseIf", "EndIf", "Eq", "Neq", "Gt", "Ge",
      "Lt", "Le", "And", "Or", "JmpFalse", "Jmp", "For", "While", "Nop",
      "Call", "Return", "BPush">>

\* `variant as u8`
Discriminant(v) == (CHOOSE i \in 1..Len(Variants) : Variants[i] = v) - 1

\* the arms of from_u8: arm n is the variant returned for opcode n - 1
FromU8Arms ==
    <<"Halt", "Push", "Add", "Sub", "Mul", "Div", "Set", "Store", "Pop",
      "Cmp", "Print", "Neg", "Const", "NewArray", "Load", "SPush", "Index",
      "AStore", "If", "Else", "ElseIf", "EndIf", "Eq", "Neq", "Gt", "Ge",
      "Lt", "Le", "And", "Or", "JmpFalse", "Jmp", "For", "While", "Nop",
      "Call", "Return", "BPush">>

\* the arms of match_instruction: mnemonic, variant
MatchArms ==
    <<<<"halt", "Halt">>, <<"push", "Push">>, <<"add", "Add">>,
      <<"sub", "Sub">>, <<"mul", "Mul">>, <<"div", "Div">>,
      <<"set", "Set">>, <<"store", "Store">>, <<"pop", "Pop">>,
      <<"cmp", "Cmp">>, <<"print", "Print">>, <<"neg", "Neg">>,
      <<"const", "Const">>, <<"newarray", "NewArray">>, <<"load", "Load">>,
      <<"spush", "SPush">>, <<"index", "Index">>, <<"astore", "AStore">>,
      <<"if", "If">>, <<"else", "Else">>, <<"elseif", "EndIf">>,
      <<"endif", "EndIf">>, <<"eq", "Eq">>, <<"neq", "Neq">>,
      <<"gt", "Gt">>, <<"ge", "Ge">>, <<"lt", "Lt">>, <<"le", "Le">>,
      <<"and", "And">>, <<"or", "Or">>, <<"jmpfalse", "JmpFalse">>,
      <<"jmp", "Jmp">>, <<"for", "For">>, <<"while", "While">>,
      <<"nop", "Nop">>, <<"call", "Call">>, <<"return", "Return">>,
      <<"bpush", "BPush">>>>

\* Instruction as u8 of the variant with the given name (as_str inverse)
Opcode(name) == (CHOOSE i \in 1..Len(INSTRUCTIONS) : INSTRUCTIONS[i] = name) - 1

\* Instruction::as_str
as_str(op) == INSTRUCTIONS[op + 1]

\* Instruction::from_u8; -1 stands for the panic "Unknown opcode"
from_u8(opcode) ==
    IF opcode >= 0 /\ opcode < Len(FromU8Arms)
    THEN Discriminant(FromU8Arms[opcode + 1]) ELSE -1

\* Instruction::match_instruction; -1 is None
match_instruction(s) ==
    IF \E i \in 1..Len(MatchArms) : MatchArms[i][1] = s
    THEN Discriminant(
           MatchArms[CHOOSE i \in 1..Len(MatchArms) : MatchArms[i][1] = s][2])
    ELSE -1

\* ------------------------------------------------------------ binary image
\* One cell per byte.  A byte that is an opcode, a tag, an arity, a slot
\* count or a boolean is B(n); a multi-byte little-endian field is its head
\* cell carrying the value followed by continuation cells.
B(n) == [k |-> "b", v |-> n]
H(kind, v) == [k |-> kind, v |-> v]
Cont == [k |-> "c", v |-> 0]
Pad(n) == [i \in 1..n |-> Cont]
U16(v) == <<H("u16", v)>> \o Pad(1)
U32(v) == <<H("u32", v)>> \o Pad(3)
F64(v) == <<H("f64", v)>> \o Pad(7)

\* strings of the model and their length in bytes
Strings == <<"yes", "no", "hi">>
StrId(s) == CHOOSE i \in 1..Len(Strings) : Strings[i] = s
StrLen(id) == IF id = 1 THEN 3 ELSE 2
StrBytes(id) == <<H("str", id)>> \o Pad(StrLen(id) - 1)

\* DataTag as u8
TagNil == 0
TagFloat == 1
TagBool == 2
TagInteger == 5
TagText == 8

\* code bytes of one generator instruction (spec 4.1 table, 4.2 tags);
\* <<>> for an unknown mnemonic
Encode(instr) ==
    LET op == match_instruction(instr.op) IN
    CASE op = -1 -> <<>>
      [] instr.op = "push" -> <<B(op), B(TagInteger)>> \o F64(instr.arg)
      [] instr.op = "spush" -> <<B(op), B(TagText)>> \o U32(instr.arg)
      [] instr.op = "bpush" -> <<B(op), B(TagBool), B(instr.arg)>>
      [] instr.op \in {"load", "store", "astore", "index", "newarray", "call"}
            -> <<B(op)>> \o U16(instr.arg)
      [] instr.op \in {"jmp", "jmpfalse"} -> <<B(op)>> \o U32(instr.arg)
      [] OTHER -> <<B(op)>>

RECURSIVE EncodeAll(_, _)
EncodeAll(instrs, i) ==
    IF i > Len(instrs) THEN <<>>
    ELSE Encode(instrs[i]) \o EncodeAll(instrs, i + 1)

\* one subroutine of the image (spec 4.2 layout)
SubBytes(arity, slots, code) ==
    U32(0) \o <<B(arity % 256), B(slots % 256)>> \o U32(Len(code)) \o code

RECURSIVE SubsBytes(_, _), PoolBytes(_, _)
SubsBytes(fs, i) ==
    IF i > Len(fs) THEN <<>>
    ELSE SubBytes(fs[i].arity, fs[i].slots, fs[i].code) \o SubsBytes(fs, i + 1)

PoolBytes(pool, i) ==
    IF i > Len(pool) THEN <<>>
    ELSE U32(StrLen(StrId(pool[i]))) \o StrBytes(StrId(pool[i]))
         \o PoolBytes(pool, i + 1)

\* image of subroutines fs (records arity, slots, code) and a string pool
ImageOf(fs, pool) ==
    U32(Len(fs)) \o SubsBytes(fs, 1) \o U32(Len(pool)) \o PoolBytes(pool, 1)

\* textual image of the generator assembled to bytes
assemble(g) ==
    ImageOf([i \in 1..Len(g.functions) |->
                [arity |-> g.functions[i].arity,
                 slots |-> g.functions[i].slots,
                 code |-> EncodeAll(g.functions[i].instructions, 1)]],
            g.string_pool)

\* every mnemonic of the textual image is known to the assembler
Assemblable(g) ==
    \A i \in 1..Len(g.functions) :
      \A j \in 1..Len(g.functions[i].instructions) :
        match_instruction(g.functions[i].instructions[j].op) # -1

\* ------------------------------------------------------------------ vm.rs
\* reading `width` bytes at ip as a field of the given kind: a slice past
\* the end of the code panics, bytes that are not such a field decode to an
\* arbitrary number ("garbage")
ReadAt(code, ip, kind, width) ==
    IF ip + width > Len(code) THEN [st |-> "panic", v |-> 0]
    ELSE IF code[ip + 1].k = kind THEN [st |-> "ok", v |-> code[ip + 1].v]
    ELSE [st |-> "garbage", v |-> 0]

Worst(sts) ==
    IF "panic" \in sts THEN "panic"
    ELSE IF "garbage" \in sts THEN "garbage" ELSE "ok"

StatusOf(st) == IF st = "panic" THEN "fatal" ELSE "misdecoded"

\* StackFrame::new(function, ip, sp, start)
StackFrame(function, ip, sp, start) ==
    [function |-> function, ip |-> ip, start_sp |-> start, sp |-> sp]

Func(arity, slots, code) == [arity |-> arity, slots |-> slots, code |-> code]

\* the machine as one value, so that the steps of a handler compose
Machine ==
    [functions |-> functions, string_pool |-> string_pool,
     stack_frame |-> stack_frame, stack |-> stack, output |-> output,
     status |-> status]

\* Vm::new
VmNew ==
    [functions |-> <<>>, string_pool |-> <<>>,
     stack_frame |-> <<StackFrame(Func(0, 0, <<>>), 0, 0, 0)>>,
     stack |-> [i \in 1..StackSize |-> Nil], output |-> <<>>,
     status |-> "idle"]

current_frame(m) == m.stack_frame[Len(m.stack_frame)]

current_code(m) == current_frame(m).function.code

fail(m, st) == [m EXCEPT !.status = StatusOf(st)]

incr_ip(m, by) ==
    [m EXCEPT !.stack_frame[Len(m.stack_frame)].ip = @ + by]

\* Vm::add_code
add_code(m, code) ==
    [m EXCEPT !.stack_frame[Len(m.stack_frame)].function.code = code]

\* Vm::load_subs, from the count on: [st, ip, subs]
RECURSIVE load_subs_from(_, _, _, _)
load_subs_from(code, ip, n, acc) ==
    IF n = 0 THEN [st |-> "ok", ip |-> ip, subs |-> acc]
    ELSE LET ar == ReadAt(code, ip + 4, "b", 1)
             sl == ReadAt(code, ip + 5, "b", 1)
             len == ReadAt(code, ip + 6, "u32", 4)
             st == Worst({ReadAt(code, ip, "u32", 4).st, ar.st, sl.st, len.st})
         IN  IF st # "ok" THEN [st |-> st, ip |-> ip, subs |-> acc]
             ELSE IF ip + 10 + len.v > Len(code)
             THEN [st |-> "panic", ip |-> ip, subs |-> acc]
             ELSE load_subs_from(code, ip + 10 + len.v, n - 1,
                    Append(acc, Func(ar.v, sl.v,
                                     SubSeq(code, ip + 11, ip + 10 + len.v))))

load_subs(code, ip) ==
    LET n == ReadAt(code, ip, "u32", 4)
    IN  IF n.st # "ok" THEN [st |-> n.st, ip |-> ip, subs |-> <<>>]
        ELSE load_subs_from(code, ip + 4, n.v, <<>>)

\* Vm::load_string_pool, from the count on: [st, ip, pool]
RECURSIVE load_pool_from(_, _, _, _)
load_pool_from(code, ip, n, acc) ==
    IF n = 0 THEN [st |-> "ok", ip |-> ip, pool |-> acc]
    ELSE LET len == ReadAt(code, ip, "u32", 4)
             str == ReadAt(code, ip + 4, "str", len.v)
             st == Worst({len.st, IF len.st = "ok" THEN str.st ELSE "ok"})
         IN  IF st # "ok" THEN [st |-> st, ip |-> ip, pool |-> acc]
             ELSE load_pool_from(code, ip + 4 + len.v, n - 1,
                                 Append(acc, Strings[str.v]))

load_string_pool(code, ip) ==
    LET n == ReadAt(code, ip, "u32", 4)
    IN  IF n.st # "ok" THEN [st |-> n.st, ip |-> ip, pool |-> <<>>]
        ELSE load_pool_from(code, ip + 4, n.v, <<>>)

\* Vm::run up to the dispatch loop
run_prologue(m) ==
    LET code == current_code(m)
        subs == load_subs(code, current_frame(m).ip)
        pool == load_string_pool(code, subs.ip)
        fs == m.functions \o subs.subs
        n == Len(m.stack_frame)
    IN  IF subs.st # "ok" THEN fail(m, subs.st)
        ELSE IF pool.st # "ok" THEN fail(m, pool.st)
        ELSE IF Len(fs) = 0 THEN fail(m, "panic")
        ELSE [m EXCEPT
                !.functions = fs,
                !.string_pool = pool.pool,
                !.stack_frame =
                    Append([@ EXCEPT ![n].ip = pool.ip,
                                     ![n].function.code =
                                         SubSeq(code, pool.ip + 1, Len(code))],
                           StackFrame(fs[1], 0, fs[1].slots, fs[1].slots)),
                !.status = "running"]

\* Vm::pop: the object returned (Panic on underflow or past the stack)
popv(m) ==
    LET f == current_frame(m)
    IN  IF f.sp = 0 \/ f.start_sp + f.sp - 1 >= StackSize THEN Panic
        ELSE m.stack[f.start_sp + f.sp - 1 + 1]

pop(m) ==
    IF m.status # "running" THEN m
    ELSE IF IsPanic(popv(m)) THEN fail(m, "panic")
    ELSE [m EXCEPT !.stack_frame[Len(m.stack_frame)].sp = @ - 1]

\* Vm::push
push(m, obj) ==
    LET f == current_frame(m)
    IN  IF m.status # "running" THEN m
        ELSE IF IsPanic(obj) \/ f.start_sp + f.sp >= StackSize
        THEN fail(m, "panic")
        ELSE [m EXCEPT !.stack[f.start_sp + f.sp + 1] = obj,
                       !.stack_frame[Len(m.stack_frame)].sp = @ + 1]

\* current_stack()[slot]
slot_get(m, slot) ==
    LET f == current_frame(m)
    IN  IF f.start_sp + slot >= StackSize THEN Panic
        ELSE m.stack[f.start_sp + slot + 1]

slot_set(m, slot, obj) ==
    LET f == current_frame(m)
    IN  IF m.status # "running" THEN m
        ELSE IF IsPanic(obj) \/ f.start_sp + slot >= StackSize
        THEN fail(m, "panic")
        ELSE [m EXCEPT !.stack[f.start_sp + slot + 1] = obj]

\* an operand of the given kind and width read at ip, ip advanced past it
operand(m, kind, width) ==
    ReadAt(current_code(m), current_frame(m).ip, kind, width)

skip(m, r, width) ==
    IF m.status # "running" THEN m
    ELSE IF r.st # "ok" THEN fail(m, r.st)
    ELSE incr_ip(m, width)

\* Vm::get_instruction: [st, v]
get_instruction(m) ==
    LET r == operand(m, "b", 1)
    IN  IF r.st = "ok" /\ from_u8(r.v) = -1 THEN [st |-> "panic", v |-> 0]
        ELSE r

\* Vm::get_const
get_const(m) ==
    LET tag == operand(m, "b", 1)
        m1 == skip(m, tag, 1)
        bytes == operand(m1, "f64", 8)
    IN  IF Worst({tag.st, bytes.st}) # "ok" \/ tag.v > 10 THEN Panic
        ELSE CASE tag.v = TagNil -> Nil
               [] tag.v = TagFloat -> FloatObj(bytes.v)
               [] tag.v = TagBool -> BoolObj(bytes.v # 0)
               [] tag.v = TagInteger -> IntObj(bytes.v)
               [] tag.v = TagText ->
                    IF bytes.v >= 0 /\ bytes.v < Len(m.string_pool)
                    THEN StrObj(StrId(m.string_pool[bytes.v + 1]))
                    ELSE Panic
               [] OTHER -> Panic

\* Vm::push_frame
push_frame(m, function) ==
    LET sp == IF Len(m.stack_frame) > 1 THEN current_frame(m).sp ELSE 0
        start == sp - function.arity
    IN  IF m.status # "running" THEN m
        ELSE IF start < 0 THEN fail(m, "panic")
        ELSE [m EXCEPT !.stack_frame =
                          Append(@, StackFrame(function, 0, sp, start))]

\* Vm::pop_frame
pop_frame(m) ==
    [m EXCEPT !.stack_frame = SubSeq(@, 1, Len(@) - 1)]

\* binop!: left is the value popped first
binop(op, m) ==
    LET left == popv(m)
        m1 == pop(m)
        right == popv(m1)
        m2 == pop(m1)
    IN  IF m2.status # "running" THEN m2
        ELSE push(m2, Arith(op, left, right))

\* cmpop! taking the value popped first as the right operand
cmpop_m(op, m) ==
    LET right == popv(m)
        m1 == pop(m)
        left == popv(m1)
        m2 == pop(m1)
        val == CASE op = "eq" -> IF PartialEq(left, right) THEN "T" ELSE "F"
                 [] op = "neq" -> IF PartialEq(left, right) THEN "F" ELSE "T"
                 [] OTHER -> PartialOrd(op, left, right)
    IN  IF m2.status # "running" THEN m2
        ELSE IF val = "panic" THEN fail(m2, "panic")
        ELSE push(m2, BoolObj(val = "T"))

\* cmpop!: left is the value popped first
cmpop(op, m) ==
    LET left == popv(m)
        m1 == pop(m)
        right == popv(m1)
        m2 == pop(m1)
        val == CASE op = "eq" -> IF PartialEq(left, right) THEN "T" ELSE "F"
                 [] op = "neq" -> IF PartialEq(left, right) THEN "F" ELSE "T"
                 [] OTHER -> PartialOrd(op, left, right)
    IN  IF m2.status # "running" THEN m2
        ELSE IF val = "panic" THEN fail(m2, "panic")
        ELSE push(m2, BoolObj(val = "T"))

\* boolop!: right is the value popped first
boolop(op, m) ==
    LET right == popv(m)
        m1 == pop(m)
        left == popv(m1)
        m2 == pop(m1)
    IN  IF m2.status # "running" THEN m2
        ELSE IF right.tag # "Bool" \/ left.tag # "Bool" THEN fail(m2, "panic")
        ELSE push(m2, BoolObj(IF op = "and"
                              THEN left.data = 1 /\ right.data = 1
                              ELSE left.data = 1 \/ right.data = 1))

\* ------------------------------------------------- handlers of Vm::run
\* Each takes the machine after get_instruction has advanced ip past the
\* opcode byte.

\* f64 as usize saturates at 0
as_usize(n) == IF n < 0 THEN 0 ELSE n

exec_push(m) ==
    LET tag == operand(m, "b", 1)
        bytes == operand(incr_ip(m, 1), "f64", 8)
    IN  IF Worst({tag.st, bytes.st}) = "garbage" THEN fail(m, "garbage")
        ELSE push(incr_ip(m, 9), get_const(m))

exec_spush(m) ==
    LET tag == operand(m, "b", 1)
        index == operand(incr_ip(m, 1), "u32", 4)
        st == Worst({tag.st, index.st})
    IN  IF st # "ok" THEN fail(m, st)
        ELSE IF tag.v > 10 \/ index.v >= Len(m.string_pool)
        THEN fail(m, "panic")
        ELSE push(incr_ip(m, 5), StrObj(StrId(m.string_pool[index.v + 1])))

exec_bpush(m) ==
    LET tag == operand(m, "b", 1)
        byte == operand(incr_ip(m, 1), "b", 1)
        st == Worst({tag.st, byte.st})
    IN  IF st # "ok" THEN fail(m, st)
        ELSE IF tag.v > 10 THEN fail(m, "panic")
        ELSE push(incr_ip(m, 2), BoolObj(byte.v # 0))

exec_call(m) ==
    LET index == operand(m, "u16", 2)
        m1 == skip(m, index, 2)
    IN  IF m1.status # "running" THEN m1
        ELSE IF index.v >= Len(m1.functions) THEN fail(m1, "panic")
        ELSE push_frame(m1, m1.functions[index.v + 1])

exec_return(m) == pop_frame(m)

exec_neg(m) == push(pop(m), ObjNeg(popv(m)))

RECURSIVE pop_into(_, _, _)
\* for _ in 0..element_count { arr.push(self.pop()) }: [m, arr]
pop_into(m, n, arr) ==
    IF n = 0 \/ m.status # "running" THEN [m |-> m, arr |-> arr]
    ELSE pop_into(pop(m), n - 1,
                  IF IsPanic(popv(m)) THEN arr ELSE TablePush(arr, popv(m)))

\* newarray keeping the last value popped as element 0
exec_newarray_m(m) ==
    LET count == operand(m, "u16", 2)
        m1 == skip(m, count, 2)
        r == pop_into(m1, count.v, TableNew)
        n == r.arr.array_length
    IN  IF m1.status # "running" THEN m1
        ELSE push(r.m, ArrObj([r.arr EXCEPT
                                 !.array = [i \in 1..n |-> @[n + 1 - i]]]))

exec_newarray(m) ==
    LET count == operand(m, "u16", 2)
        m1 == skip(m, count, 2)
        r == pop_into(m1, count.v, TableNew)
    IN  IF m1.status # "running" THEN m1
        ELSE push(r.m, ArrObj(r.arr))

exec_astore(m) ==
    LET idx == popv(m)
        m1 == pop(m)
        value == popv(m1)
        m2 == pop(m1)
        loc == operand(m2, "u16", 2)
        m3 == skip(m2, loc, 2)
        obj_array == slot_get(m3, loc.v)
    IN  IF m1.status # "running" THEN m1
        ELSE IF idx.tag # "Float" THEN fail(m1, "panic")
        ELSE IF m3.status # "running" THEN m3
        ELSE IF obj_array.tag # "Array" THEN fail(m3, "panic")
        ELSE slot_set(m3, loc.v,
                      ArrObj(TableSet(obj_array.table[1],
                                      as_usize(idx.data), value)))

exec_store(m) ==
    LET slot == operand(m, "u16", 2)
        m1 == skip(m, slot, 2)
    IN  slot_set(pop(m1), slot.v, popv(m1))

\* load reading a three-byte operand
exec_load_m(m) ==
    LET slot == operand(m, "u16", 2)
        m1 == skip(m, slot, 3)
    IN  push(m1, slot_get(m1, slot.v))

exec_load(m) ==
    LET slot == operand(m, "u16", 2)
        m1 == skip(m, slot, 2)
    IN  push(m1, slot_get(m1, slot.v))

exec_jmp(m) ==
    LET new_loc == operand(m, "u32", 4)
        m1 == skip(m, new_loc, 4)
    IN  IF m1.status # "running" THEN m1
        ELSE [m1 EXCEPT !.stack_frame[Len(m1.stack_frame)].ip = new_loc.v]

\* jmpfalse jumping on true
exec_jmpfalse_m(m) ==
    LET new_loc == operand(m, "u32", 4)
        m1 == skip(m, new_loc, 4)
        obj == popv(m1)
        m2 == pop(m1)
    IN  IF m2.status # "running" THEN m2
        ELSE IF obj.tag = "Bool" /\ obj.data # 0
        THEN [m2 EXCEPT !.stack_frame[Len(m2.stack_frame)].ip = new_loc.v]
        ELSE m2

exec_jmpfalse(m) ==
    LET new_loc == operand(m, "u32", 4)
        m1 == skip(m, new_loc, 4)
        obj == popv(m1)
        m2 == pop(m1)
    IN  IF m2.status # "running" THEN m2
        ELSE IF obj.tag = "Bool" /\ obj.data = 0
        THEN [m2 EXCEPT !.stack_frame[Len(m2.stack_frame)].ip = new_loc.v]
        ELSE m2

exec_index(m) ==
    LET index == popv(m)
        m1 == pop(m)
        slot == operand(m1, "u16", 2)
        m2 == skip(m1, slot, 2)
        obj == slot_get(m2, slot.v)
    IN  IF m1.status # "running" THEN m1
        ELSE IF index.tag # "Float" THEN fail(m1, "panic")
        ELSE IF m2.status # "running" THEN m2
        ELSE IF IsPanic(obj) THEN fail(m2, "panic")
        ELSE IF obj.tag = "Array"
        THEN LET e == TableGet(obj.table[1], as_usize(index.data))
             IN  IF Len(e) = 1 THEN push(m2, e[1])
                 ELSE [m2 EXCEPT !.status = "stopped"]
        ELSE m2

\* Vm::print
exec_print(m) ==
    LET m1 == pop(m)
    IN  IF m1.status # "running" THEN m1
        ELSE [m1 EXCEPT !.output = Append(@, popv(m))]

exec_halt(m) == [m EXCEPT !.status = "halted"]

\* ---------------------------------------------------------------- actions
SetVm(m) ==
    /\ functions' = m.functions
    /\ string_pool' = m.string_pool
    /\ stack_frame' = m.stack_frame
    /\ stack' = m.stack
    /\ output' = m.output
    /\ status' = m.status
    /\ UNCHANGED <<phase, tree, gen, image, saved, popped, probe>>

Running == phase = "loaded" /\ status = "running"

\* the instruction the dispatch loop is about to execute, "" if none decodes
Fetched ==
    IF Running /\ get_instruction(Machine).st = "ok"
    THEN as_str(get_instruction(Machine).v) ELSE ""

\* the machine after get_instruction
AfterFetch == incr_ip(Machine, 1)

\* generate(&node): the whole tree is lowered by a fresh IrGenerator
Generate ==
    /\ phase = "source"
    /\ gen' = generate(tree)
    /\ phase' = "generated"
    /\ UNCHANGED <<tree, image, saved, popped, probe>>
    /\ UNCHANGED vmvars

\* assemble(&asm): the textual image becomes the byte image
Assemble ==
    /\ phase = "generated"
    /\ ~gen.fatal
    /\ Assemblable(gen)
    /\ image' = assemble(gen)
    /\ phase' = "image"
    /\ UNCHANGED <<tree, gen, saved, popped, probe>>
    /\ UNCHANGED vmvars

\* execute(bytecode): Vm::new, add_code, and run up to the dispatch loop
Execute ==
    /\ phase = "image"
    /\ phase' = "loaded"
    /\ LET m == run_prologue(add_code(VmNew, image))
       IN  /\ functions' = m.functions
           /\ string_pool' = m.string_pool
           /\ stack_frame' = m.stack_frame
           /\ stack' = m.stack
           /\ output' = m.output
           /\ status' = m.status
    /\ UNCHANGED <<tree, gen, image, saved, popped, probe>>

ExecFetchFail ==
    /\ Running
    /\ get_instruction(Machine).st # "ok"
    /\ SetVm(fail(Machine, get_instruction(Machine).st))

ExecPush == Fetched = "push" /\ SetVm(exec_push(AfterFetch))

ExecSPush == Fetched = "spush" /\ SetVm(exec_spush(AfterFetch))

ExecBPush == Fetched = "bpush" /\ SetVm(exec_bpush(AfterFetch))

ExecCall ==
    /\ Fetched = "call"
    /\ Len(stack_frame) < MaxFrames
    /\ SetVm(exec_call(AfterFetch))

ExecReturn == Fetched = "return" /\ SetVm(exec_return(AfterFetch))

ExecBinop ==
    /\ Fetched \in {"add", "sub", "mul", "div"}
    /\ SetVm(binop(Fetched, AfterFetch))

ExecCmpop ==
    /\ Fetched \in {"eq", "neq", "gt", "ge", "lt", "le"}
    /\ SetVm(cmpop(Fetched, AfterFetch))

ExecBoolop ==
    /\ Fetched \in {"and", "or"}
    /\ SetVm(boolop(Fetched, AfterFetch))

ExecNeg == Fetched = "neg" /\ SetVm(exec_neg(AfterFetch))

ExecNewArray == Fetched = "newarray" /\ SetVm(exec_newarray(AfterFetch))

ExecAStore == Fetched = "astore" /\ SetVm(exec_astore(AfterFetch))

ExecStore == Fetched = "store" /\ SetVm(exec_store(AfterFetch))

ExecLoad == Fetched = "load" /\ SetVm(exec_load(AfterFetch))

ExecJmp == Fetched = "jmp" /\ SetVm(exec_jmp(AfterFetch))

ExecJmpFalse == Fetched = "jmpfalse" /\ SetVm(exec_jmpfalse(AfterFetch))

ExecIndex == Fetched = "index" /\ SetVm(exec_index(AfterFetch))

ExecNop == Fetched = "nop" /\ SetVm(AfterFetch)

ExecPrint ==
    /\ Fetched = "print"
    /\ Len(output) < MaxOutput
    /\ SetVm(exec_print(AfterFetch))

ExecHalt == Fetched = "halt" /\ SetVm(exec_halt(AfterFetch))

\* the `_` arm: "Unknown instruction", break
ExecUnknown ==
    /\ Fetched \in {"set", "pop", "cmp", "const", "if", "else", "elseif",
                    "endif", "for", "while"}
    /\ SetVm(exec_halt(AfterFetch))

Step ==
    \/ ExecFetchFail \/ ExecPush \/ ExecSPush \/ ExecBPush \/ ExecCall
    \/ ExecReturn \/ ExecBinop \/ ExecCmpop \/ ExecBoolop \/ ExecNeg
    \/ ExecNewArray \/ ExecAStore \/ ExecStore \/ ExecLoad \/ ExecJmp
    \/ ExecJmpFalse \/ ExecIndex \/ ExecNop \/ ExecPrint \/ ExecHalt
    \/ ExecUnknown

\* ------------------------------------------- trees built by parse/parser.rs
Leaf(type) == Node(type, "", 0, <<>>)
IntLit(n) == Node("Integer", "", n, <<>>)
BoolLit(b) == Node("Boolean", "", IF b THEN 1 ELSE 0, <<>>)
TextLit(str) == Node("Text", str, 0, <<>>)
Id(x) == Node("Ident", x, 0, <<>>)

\* parse_expr: node.add_child(rhs); node.add_child(lhs)
Bin(op, lhs, rhs) == Node("BinaryOp", op, 0, <<rhs, lhs>>)

\* parse_expr, Assign: the left operand is marked can_assign
AssignTo(lhs, rhs) ==
    Node("BinaryOp", "Assign", 0, <<rhs, [lhs EXCEPT !.can_assign = TRUE]>>)

\* parse_unary
Un(op, e) == Node("UnaryOp", op, 0, <<e>>)

\* parse_let: the initializer is the child of the identifier
Let(x, e) == Node("Let", "", 0, <<Node("Ident", x, 0, <<e>>)>>)

PrintOf(e) == Node("Print", "", 0, <<e>>)

\* `{` stmts `}` inside a code block: LBrace and RBrace become nodes
Braced(stmts) == <<Leaf("Block")>> \o stmts \o <<Leaf("EndBlock")>>

\* parse_to_node, TokenType::If (body is the statement list as parsed,
\* with its brace nodes when the source has braces)
If(c, body) ==
    Node("If", "", 0,
         <<Node("Conditional", "", 0, <<c>>), Leaf("Block"),
           Node("CodeBlock", "", 0, body), Leaf("EndBlock"), Leaf("EndIf")>>)

IfElse(c, body, els) ==
    Node("If", "", 0,
         <<Node("Conditional", "", 0, <<c>>), Leaf("Block"),
           Node("CodeBlock", "", 0, body), Leaf("EndBlock"),
           Node("Else", "", 0, <<Leaf("Block")>> \o els \o <<Leaf("EndBlock")>>),
           Leaf("EndIf")>>)

\* parse_to_node, TokenType::While
While(c, body) ==
    Node("While", "", 0,
         <<Leaf("Block"), Node("Conditional", "", 0, <<c>>),
           Node("CodeBlock", "", 0, body), Leaf("EndBlock"),
           Leaf("EndWhile")>>)

\* parse_to_node, TokenType::For and parse_range
For(x, a, b, body) ==
    Node("For", "", 0,
         <<Id(x), Node("Range", "", 0, <<a, b>>),
           Node("CodeBlock", "", 0, body), Leaf("EndFor")>>)

RECURSIVE Idents(_, _)
Idents(names, i) ==
    IF i > Len(names) THEN <<>> ELSE <<Id(names[i])>> \o Idents(names, i + 1)

\* parse_to_node, Func
FuncDef(name, params, body) ==
    Node("Function", name, 0,
         <<Node("Params", "", 0, Idents(params, 1)),
           Node("CodeBlock", "", 0, body)>>)

\* parse_primary: identifier followed by `(`
Call(name, args) == Node("Call", name, 0, args)

\* parse_primary: `[` e, ... `]`
ArrayLit(elems) == Node("Array", "", 0, elems)

\* parse_primary: identifier followed by `[` index `]`
Elem(x, index) ==
    Node("Ident", x, 0, <<Node("ArrayElement", "", 0, <<index>>)>>)

\* Parser::parse: Root > Function("main") > CodeBlock
Main(stmts) ==
    Node("Root", "", 0,
         <<Node("Function", "main", 0, <<Node("CodeBlock", "", 0, stmts)>>)>>)

\* ------------------------------------------------------- source programs
\* values used as literals
Vals == {1, 2, 6}

\* non-commutative operators of the language
NonCommutative ==
    {"Sub", "Div", "GreaterThan", "GreaterThanEqual", "LessThan",
     "LessThanEqual"}

\* for i in a to b { print i } endfor
ForProg(a, b) ==
    Main(<<For("i", IntLit(a), IntLit(b), Braced(<<PrintOf(Id("i"))>>))>>)

ForProgs == {ForProg(a, b) : a \in 0..1, b \in 0..3}

\* let s = 0; let i = 0; while i < 5 { let s = s + i; let i = i + 1 }
\* endwhile; print s
WhileAccProg ==
    Main(<<Let("s", IntLit(0)), Let("i", IntLit(0)),
           While(Bin("LessThan", Id("i"), IntLit(5)),
                 Braced(<<Let("s", Bin("Add", Id("s"), Id("i"))),
                          Let("i", Bin("Add", Id("i"), IntLit(1)))>>)),
           PrintOf(Id("s"))>>)

\* let a = [1, 2, 3]; print a[i]
ArrayProg(index) ==
    Main(<<Let("a", ArrayLit(<<IntLit(1), IntLit(2), IntLit(3)>>)),
           PrintOf(Elem("a", index))>>)

ArrayProgs ==
    {ArrayProg(IntLit(i)) : i \in 0..2}
    \cup {ArrayProg(Bin("Add", IntLit(0), IntLit(1)))}

\* print a OP b
OperandProg(op, a, b) == Main(<<PrintOf(Bin(op, IntLit(a), IntLit(b)))>>)

\* let x = a; let y = b; print x OP y
OperandVarProg(op, a, b) ==
    Main(<<Let("x", IntLit(a)), Let("y", IntLit(b)),
           PrintOf(Bin(op, Id("x"), Id("y")))>>)

OperandProgs ==
    {OperandProg(op, a, b) : op \in NonCommutative, a \in Vals, b \in Vals}
    \cup {OperandVarProg(op, a, b) :
             op \in NonCommutative, a \in Vals, b \in Vals}

\* programs that define and call functions
\* func f(a) print a endfunc; f(5)
CallProg1 ==
    Main(<<FuncDef("f", <<"a">>, <<PrintOf(Id("a"))>>),
           Call("f", <<IntLit(5)>>)>>)

\* let x = 7; func f(a) print a endfunc; f(5)
CallProg2 ==
    Main(<<Let("x", IntLit(7)),
           FuncDef("f", <<"a">>, <<PrintOf(Id("a"))>>),
           Call("f", <<IntLit(5)>>)>>)

\* func f(a, b) let c = a - b; print c endfunc; f(5, 3); f(2, 1)
CallProg3 ==
    Main(<<FuncDef("f", <<"a", "b">>,
                   <<Let("c", Bin("Sub", Id("a"), Id("b"))),
                     PrintOf(Id("c"))>>),
           Call("f", <<IntLit(5), IntLit(3)>>),
           Call("f", <<IntLit(2), IntLit(1)>>)>>)

\* let x = 7; func f() let y = 1; for i in 0 to 1 { print y } endfor
\* endfunc; f()
CallProg4 ==
    Main(<<Let("x", IntLit(7)),
           FuncDef("f", <<>>,
                   <<Let("y", IntLit(1)),
                     For("i", IntLit(0), IntLit(1),
                         Braced(<<PrintOf(Id("y"))>>))>>),
           Call("f", <<>>)>>)

\* func g(a) print a endfunc; func f(a) g(a) endfunc; f(5)
CallProg5 ==
    Main(<<FuncDef("g", <<"a">>, <<PrintOf(Id("a"))>>),
           FuncDef("f", <<"a">>, <<Call("g", <<Id("a")>>)>>),
           Call("f", <<IntLit(5)>>)>>)

\* g(5), with no function g anywhere
CallProg6 == Main(<<Call("g", <<IntLit(5)>>)>>)

\* func f() print 1 endfunc; func g() print 2 endfunc
CallProg7 ==
    Main(<<FuncDef("f", <<>>, <<PrintOf(IntLit(1))>>),
           FuncDef("g", <<>>, <<PrintOf(IntLit(2))>>)>>)

\* f(5); func f(a) print a endfunc
CallProg8 ==
    Main(<<Call("f", <<IntLit(5)>>),
           FuncDef("f", <<"a">>, <<PrintOf(Id("a"))>>)>>)

CallProgs ==
    {CallProg1, CallProg2, CallProg3, CallProg4, CallProg5, CallProg6,
     CallProg7, CallProg8}

\* let x = 1; ... (n declarations); func f(a, ...) print a; ... endfunc
MaxLets == 2

LetNames == <<"x", "y", "z">>

ParamNames == <<"a", "b">>

ParamProg(n, a) ==
    Main([i \in 1..n |-> Let(LetNames[i], IntLit(1))]
         \o <<FuncDef("f", SubSeq(ParamNames, 1, a),
                      [i \in 1..a |-> PrintOf(Id(ParamNames[i]))])>>)

ParamProgs == {ParamProg(n, a) : n \in 0..MaxLets, a \in 1..2}

\* the remaining statement kinds, one program each
\* print 1 + 2 * 3
MiscProg1 ==
    Main(<<PrintOf(Bin("Add", IntLit(1), Bin("Mul", IntLit(2), IntLit(3))))>>)

\* if 3 > 2 { print "yes" } else { print "no" } endif
MiscProg2 ==
    Main(<<IfElse(Bin("GreaterThan", IntLit(3), IntLit(2)),
                  Braced(<<PrintOf(TextLit("yes"))>>),
                  Braced(<<PrintOf(TextLit("no"))>>))>>)

\* let t = true; print t and !t or -1 == 1
MiscProg3 ==
    Main(<<Let("t", BoolLit(TRUE)),
           PrintOf(Bin("And", Id("t"), BoolLit(FALSE))),
           PrintOf(Bin("Or", Id("t"), BoolLit(FALSE))),
           PrintOf(Bin("EqualEqual", Un("Neg", IntLit(1)), IntLit(1)))>>)

\* let a = [1, 2]; a[0] = 5
MiscProg4 ==
    Main(<<Let("a", ArrayLit(<<IntLit(1), IntLit(2)>>)),
           AssignTo(Elem("a", IntLit(0)), IntLit(5))>>)

\* if true { print "yes" } else { print "no" } endif; print false
MiscProg5 ==
    Main(<<IfElse(BoolLit(TRUE),
                  Braced(<<PrintOf(TextLit("yes"))>>),
                  Braced(<<PrintOf(TextLit("no"))>>)),
           PrintOf(BoolLit(FALSE))>>)

\* print !true
MiscProg6 == Main(<<PrintOf(Un("Not", BoolLit(TRUE)))>>)

MiscProgs ==
    {MiscProg1, MiscProg2, MiscProg3, MiscProg4, MiscProg5, MiscProg6}

\* if a > b { print "yes" } [else { print "no" }] endif; print "hi"
IfProg(a, b, else) ==
    Main(<<IF else
           THEN IfElse(Bin("GreaterThan", IntLit(a), IntLit(b)),
                       Braced(<<PrintOf(TextLit("yes"))>>),
                       Braced(<<PrintOf(TextLit("no"))>>))
           ELSE If(Bin("GreaterThan", IntLit(a), IntLit(b)),
                   Braced(<<PrintOf(TextLit("yes"))>>)),
           PrintOf(TextLit("hi"))>>)

IfProgs == {IfProg(a, b, else) : a \in 1..3, b \in 1..3, else \in BOOLEAN}

\* let a = [e0, e1, ...]
MaxElems == 3

ElemSeqs == UNION {[1..n -> Vals] : n \in 0..MaxElems}

ArrayLitProg(elems) ==
    Main(<<Let("a", ArrayLit([i \in 1..Len(elems) |-> IntLit(elems[i])]))>>)

ArrayLitProgs == {ArrayLitProg(elems) : elems \in ElemSeqs}

\* control flow: every nesting of If/Else, While, For, Break, Continue up to
\* depth 2 over a counter x
Incr == AssignTo(Id("x"), Bin("Add", Id("x"), IntLit(1)))
Cond == Bin("LessThan", Id("x"), IntLit(2))
Atoms == {PrintOf(Id("x")), Incr, Leaf("Break"), Leaf("Continue")}

Bodies0 ==
    {<<a>> : a \in Atoms}
    \cup {<<a, b>> : a \in {Incr, PrintOf(Id("x"))},
                     b \in {Leaf("Break"), Leaf("Continue")}}

Compound(bodies, elses) ==
    {If(Cond, Braced(b)) : b \in bodies}
    \cup {IfElse(Cond, Braced(b), Braced(e)) : b \in bodies, e \in elses}
    \cup {While(Cond, Braced(b)) : b \in bodies}
    \cup {For("i", IntLit(0), IntLit(1), Braced(b)) : b \in bodies}

Level1 == Compound(Bodies0, {<<a>> : a \in Atoms})

Bodies1 == {<<c>> : c \in Level1} \cup {<<Incr, c>> : c \in Level1}

Level2 == Compound(Bodies1, {<<Incr>>})

\* let x = 0; <compound>
ControlProgs == {Main(<<Let("x", IntLit(0)), c>>) : c \in Level1 \cup Level2}

\* the same inside a function: func f() let x = 0; <compound> endfunc; f()
ControlFuncProgs ==
    {Main(<<FuncDef("f", <<>>, <<Let("x", IntLit(0)), c>>)>>) : c \in Level1}

Programs ==
    ForProgs \cup {WhileAccProg} \cup ArrayProgs \cup OperandProgs
    \cup CallProgs \cup MiscProgs \cup ControlProgs \cup ControlFuncProgs
    \cup IfProgs \cup ArrayLitProgs \cup ParamProgs

\* --------------------------------------------------------- byte images
\* one encoded instruction
I(op, arg) == Encode([op |-> op, arg |-> arg])

\* `push` of a constant carrying the Float tag
PushFloat(v) == <<B(Opcode("push")), B(TagFloat)>> \o F64(v)

RECURSIVE PushArgs(_, _), PrintParams(_, _)
\* push 11; push 12; ... (n arguments)
PushArgs(n, k) ==
    IF k >= n THEN <<>> ELSE I("push", 11 + k) \o PushArgs(n, k + 1)

\* load 0; print; load 1; print; ... (n parameters)
PrintParams(n, k) ==
    IF k >= n THEN <<>>
    ELSE I("load", k) \o I("print", 0) \o PrintParams(n, k + 1)

\* entry with s0 local slots calls a subroutine of arity a and sl slots that
\* prints its parameters
CallImage(s0, a, sl) ==
    ImageOf(<<Func(0, s0, PushArgs(a, 0) \o I("call", 1) \o I("halt", 0)),
              Func(a, sl, PrintParams(a, 0) \o I("return", 0))>>, <<>>)

\* let v = 7; 9; print v  in a frame with one local slot
LocalCode == I("push", 7) \o I("store", 0) \o I("push", 9) \o I("load", 0)
             \o I("print", 0)

\* the code above as the entry subroutine, or as a subroutine of arity 0
\* called by an entry subroutine with s0 local slots
LocalImage(s0, called) ==
    IF called
    THEN ImageOf(<<Func(0, s0, I("call", 1) \o I("halt", 0)),
                   Func(0, 1, LocalCode \o I("return", 0))>>, <<>>)
    ELSE ImageOf(<<Func(0, 1, LocalCode \o I("halt", 0))>>, <<>>)

\* entry calls sub 1 (arity 1), which passes its parameter on to sub 2
NestedImage(s0) ==
    ImageOf(<<Func(0, s0, I("push", 11) \o I("call", 1) \o I("halt", 0)),
              Func(1, 2, I("load", 0) \o I("call", 2) \o I("return", 0)),
              Func(1, 1, I("load", 0) \o I("print", 0) \o I("return", 0))>>,
            <<>>)

\* array indexed by a constant of the given tag
IndexImage(float, i) ==
    ImageOf(<<Func(0, 1,
                I("push", 3) \o I("push", 2) \o I("push", 1)
                \o I("newarray", 3) \o I("store", 0) \o I("load", 0)
                \o (IF float THEN PushFloat(i) ELSE I("push", i))
                \o I("index", 0) \o I("print", 0) \o I("halt", 0))>>, <<>>)

\* let a = [1]; a[0.0] = 5; print a[0.0]
AStoreImage ==
    ImageOf(<<Func(0, 1, I("push", 1) \o I("newarray", 1) \o I("store", 0)
                         \o I("push", 5) \o PushFloat(0) \o I("astore", 0)
                         \o PushFloat(0) \o I("index", 0) \o I("print", 0)
                         \o I("halt", 0))>>, <<>>)

\* nop; then an opcode without a handler; never reaches halt
NopImage ==
    ImageOf(<<Func(0, 0, I("nop", 0) \o <<B(Opcode("set"))>>
                         \o I("halt", 0))>>, <<>>)

\* code that runs off its end
TruncatedImage == ImageOf(<<Func(0, 0, I("nop", 0))>>, <<>>)

\* the entry subroutine ends with return instead of halt
ReturnImage ==
    ImageOf(<<Func(0, 0, I("push", 1) \o I("print", 0) \o I("return", 0))>>,
            <<>>)

\* the entry subroutine calls itself without end
RecursionImage == ImageOf(<<Func(0, 0, I("call", 0) \o I("halt", 0))>>, <<>>)

MaxArity == 2
MaxSlots == 2

\* lines run by one repl session
MaxRuns == 2

LocalImages ==
    {LocalImage(s0, called) : s0 \in 0..MaxSlots, called \in BOOLEAN}

\* operands of every variant the VM can put on its stack
NumVals == 0..2

Numbers == {[kind |-> k, v |-> n] : k \in {"Integer", "Float"}, n \in NumVals}

Operands ==
    Numbers \cup {[kind |-> k, v |-> 1] : k \in {"Bool", "Text", "Nil", "Array"}}

\* code that leaves the operand on the stack: a constant, pool string 0, the
\* never written slot 0, or an empty array
PushOperand(c) ==
    CASE c.kind = "Integer" -> I("push", c.v)
      [] c.kind = "Float" -> PushFloat(c.v)
      [] c.kind = "Bool" -> I("bpush", c.v)
      [] c.kind = "Text" -> I("spush", 0)
      [] c.kind = "Nil" -> I("load", 0)
      [] c.kind = "Array" -> I("newarray", 0)

\* the object PushOperand leaves
OperandObj(c) ==
    CASE c.kind = "Integer" -> IntObj(c.v)
      [] c.kind = "Float" -> FloatObj(c.v)
      [] c.kind = "Bool" -> BoolObj(c.v # 0)
      [] c.kind = "Text" -> StrObj(StrId("hi"))
      [] c.kind = "Nil" -> Nil
      [] c.kind = "Array" -> ArrObj(TableNew)

\* left OP right; print
Apply(op, left, right) ==
    PushOperand(right) \o PushOperand(left) \o I(op, 0) \o I("print", 0)

OneSub(code) == ImageOf(<<Func(0, 1, code \o I("halt", 0))>>, <<"hi">>)

BinaryOps == {"add", "sub", "mul", "div", "gt", "ge", "lt", "le"}

\* print left OP right
BinaryImage(op, left, right) == OneSub(Apply(op, left, right))

\* print -c
NegImage(c) == OneSub(PushOperand(c) \o I("neg", 0) \o I("print", 0))

NegImages == {NegImage(c) : c \in Operands}

\* images of lines typed at the prompt: print -1, print -2, print 1 + 2
ReplImages ==
    {NegImage([kind |-> "Integer", v |-> 1]),
     NegImage([kind |-> "Integer", v |-> 2]),
     BinaryImage("add", [kind |-> "Integer", v |-> 1],
                 [kind |-> "Integer", v |-> 2])}

\* print a < b; print b > a; print a <= b; print a > b
OrderImage(a, b) ==
    OneSub(Apply("lt", a, b) \o Apply("gt", b, a) \o Apply("le", a, b)
           \o Apply("gt", a, b))

OrderImages == {OrderImage(a, b) : a \in Numbers, b \in Numbers}

\* print a == b; print a != b
EqImage(a, b) == OneSub(Apply("eq", a, b) \o Apply("neq", a, b))

EqImages == {EqImage(a, b) : a \in Operands, b \in Operands}

\* <operand>; jmpfalse L; push 1; print; L: halt
JmpFalseImage(c) ==
    OneSub(PushOperand(c) \o I("jmpfalse", Len(PushOperand(c)) + 16)
           \o I("push", 1) \o I("print", 0))

JmpFalseImages == {JmpFalseImage(c) : c \in Operands}

Images ==
    {CallImage(s0, a, sl) :
        s0 \in 0..MaxSlots, a \in 0..MaxArity, sl \in 0..(MaxArity + 1)}
    \cup {NestedImage(s0) : s0 \in 0..MaxSlots}
    \cup {IndexImage(f, i) : f \in BOOLEAN, i \in 0..3}
    \cup {NopImage, TruncatedImage, AStoreImage}
    \cup {BinaryImage(op, l, r) :
            op \in BinaryOps, l \in Operands, r \in Operands}
    \cup OrderImages \cup EqImages \cup JmpFalseImages
    \cup {ReturnImage, RecursionImage} \cup NegImages \cup LocalImages

\* ------------------------------------------------------------ the system
NoTree == Leaf("Undefined")

\* repl, one more line: vm.add_code(bytecode); vm.run() on the Vm that ran
\* the lines before (the run is followed here up to the dispatch loop)
Repl ==
    /\ phase = "loaded"
    /\ status = "halted"
    /\ image \in ReplImages
    /\ Len(stack_frame) - 1 < MaxRuns
    /\ \E bytecode \in ReplImages :
         /\ image' = bytecode
         /\ LET m == run_prologue(add_code(Machine, bytecode))
            IN  /\ functions' = m.functions
                /\ string_pool' = m.string_pool
                /\ stack_frame' = m.stack_frame
                /\ stack' = m.stack
                /\ output' = m.output
                /\ status' = m.status
    /\ UNCHANGED <<phase, tree, gen, saved, popped, probe>>

Init ==
    /\ \/ phase = "source" /\ tree \in Programs /\ image = <<>>
       \/ phase = "image" /\ tree = NoTree /\ image \in Images
    /\ gen = NewGen
    /\ functions = <<>>
    /\ string_pool = <<>>
    /\ stack_frame = <<>>
    /\ stack = <<>>
    /\ output = <<>>
    /\ status = "idle"
    /\ saved = <<>>
    /\ popped = <<>>
    /\ probe = <<>>

Next == Generate \/ Assemble \/ Execute \/ Step \/ Repl

Spec == Init /\ [][Next]_vars

\* ------------------------------------------------- scopes of the generator
\* The scope operations of IrGenerator driven one call at a time.  `saved`
\* remembers, for every open scope, what the generator looked like before
\* its push_scope; `popped` describes the last pop_scope.
Names == {"x", "y"}

\* no name declared yet in a scope
Undeclared == [name \in Names |-> -1]

PushScope ==
    /\ phase = "scopes"
    /\ gen.scope < MaxScope
    /\ gen' = push_scope(gen)
    /\ saved' = Append(saved, [offset |-> gen.offset, scope |-> gen.scope,
                               symbol_loc |-> gen.symbol_loc, stores |-> 0])
    /\ popped' = <<>>
    /\ probe' = Append(probe, Undeclared)
    /\ UNCHANGED <<phase, tree, image, vmvars>>

\* probe remembers, per open scope, the slot store_variable returned last
\* for each name
StoreVariable ==
    /\ phase = "scopes"
    /\ gen.symbol_loc[gen.scope + 1].var_count < MaxVars
    /\ \E name \in Names :
         /\ gen' = store_variable_st(gen, name)
         /\ probe' = [probe EXCEPT
                        ![Len(probe)][name] = store_variable(gen, name)]
    /\ saved' = IF saved = <<>> THEN saved
                ELSE [saved EXCEPT ![Len(saved)].stores = @ + 1]
    /\ popped' = <<>>
    /\ UNCHANGED <<phase, tree, image, vmvars>>

PopScope ==
    /\ phase = "scopes"
    /\ gen.scope > 0
    /\ gen' = pop_scope(gen)
    /\ popped' = <<[before |-> saved[Len(saved)],
                    offset |-> gen'.offset, scope |-> gen'.scope,
                    symbol_loc |-> gen'.symbol_loc]>>
    /\ saved' = SubSeq(saved, 1, Len(saved) - 1)
    /\ probe' = SubSeq(probe, 1, Len(probe) - 1)
    /\ UNCHANGED <<phase, tree, image, vmvars>>

InitScope ==
    /\ phase = "scopes"
    /\ tree = NoTree
    /\ gen = NewGen
    /\ image = <<>>
    /\ functions = <<>>
    /\ string_pool = <<>>
    /\ stack_frame = <<>>
    /\ stack = <<>>
    /\ output = <<>>
    /\ status = "idle"
    /\ saved = <<>>
    /\ popped = <<>>
    /\ probe = <<Undeclared>>

NextScope == PushScope \/ StoreVariable \/ PopScope

SpecScope == InitScope /\ [][NextScope]_vars

\* ---------------------------------------------------------- properties
\* the jmp, load, ... instructions of function i of the generator
\* ---- Table on its own: any sequence of push and set ----

MaxIndex == 3
TableVals == {1, 2}

Quiet(ph) ==
    /\ phase = ph
    /\ tree = NoTree
    /\ gen = NewGen
    /\ image = <<>>
    /\ functions = <<>>
    /\ string_pool = <<>>
    /\ stack_frame = <<>>
    /\ stack = <<>>
    /\ output = <<>>
    /\ status = "idle"
    /\ saved = <<>>
    /\ popped = <<>>

\* probe.written[i]: the value of the latest write to index i, as an Option
TablePushStep ==
    /\ phase = "table"
    /\ probe.table.array_length <= MaxIndex
    /\ \E v \in TableVals :
         probe' = [table |-> TablePush(probe.table, v),
                   written |-> [probe.written EXCEPT
                                  ![probe.table.array_length] = <<v>>],
                   last |-> probe.table.array_length]
    /\ UNCHANGED <<phase, tree, gen, image, vmvars, saved, popped>>

TableSetStep ==
    /\ phase = "table"
    /\ \E i \in 0..MaxIndex, v \in TableVals :
         probe' = [table |-> TableSet(probe.table, i, v),
                   written |-> [probe.written EXCEPT ![i] = <<v>>],
                   last |-> i]
    /\ UNCHANGED <<phase, tree, gen, image, vmvars, saved, popped>>

InitTable ==
    /\ Quiet("table")
    /\ probe = [table |-> TableNew,
                written |-> [i \in 0..MaxIndex + 1 |-> <<>>],
                last |-> -1]

NextTable == TablePushStep \/ TableSetStep

SpecTable == InitTable /\ [][NextTable]_vars

\* ---- the generator's string pool on its own ----

PoolStrings == {"yes", "no", "hi", "ok"}

\* probe.returned: every (string, index) a call has returned;
\* probe.last: the pool before the latest call, its string and its result
GetStringLocation ==
    /\ phase = "strings"
    /\ \E string \in PoolStrings :
         /\ gen' = get_string_location_st(gen, string)
         /\ probe' = [returned |-> probe.returned
                          \cup {<<string, get_string_location(gen, string)>>},
                      last |-> <<[before |-> gen.string_pool,
                                  string |-> string,
                                  index |-> get_string_location(gen, string)]>>]
    /\ UNCHANGED <<phase, tree, image, vmvars, saved, popped>>

InitStrings ==
    /\ Quiet("strings")
    /\ probe = [returned |-> {}, last |-> <<>>]

NextStrings == GetStringLocation

SpecStrings == InitStrings /\ [][NextStrings]_vars

\* ---- allocator.rs: Registers on its own ----

NumRegisters == 5

\* Registers::new; stack[i] is true while register i - 1 is free
RegistersNew(num_of_registers) ==
    [stack |-> [i \in 1..num_of_registers |-> TRUE], start_window |-> 0]

\* allocate returning the last free register
allocate_m(regs) ==
    IF \E i \in 1..Len(regs.stack) : regs.stack[i]
    THEN (CHOOSE i \in 1..Len(regs.stack) :
            regs.stack[i] /\ \A j \in i + 1..Len(regs.stack) : ~regs.stack[j])
         - 1
    ELSE -1

\* Registers::allocate: the register returned, -1 when
\* expect("No available register") panics
allocate(regs) ==
    IF \E i \in 1..Len(regs.stack) : regs.stack[i]
    THEN (CHOOSE i \in 1..Len(regs.stack) :
            regs.stack[i] /\ \A j \in 1..i - 1 : ~regs.stack[j]) - 1
    ELSE -1

allocate_st(regs) ==
    IF allocate(regs) = -1 THEN regs
    ELSE [regs EXCEPT !.stack[allocate(regs) + 1] = FALSE]

\* Registers::free_register
free_register(regs, register) == [regs EXCEPT !.stack[register + 1] = TRUE]

set_start_window(regs, window) == [regs EXCEPT !.start_window = window]

\* probe.held: the registers handed out and not freed since
Allocate ==
    /\ phase = "registers"
    /\ ~probe.panicked
    /\ probe' = [regs |-> allocate_st(probe.regs), op |-> "allocate",
                 reg |-> allocate(probe.regs),
                 held |-> probe.held \cup ({allocate(probe.regs)} \ {-1}),
                 panicked |-> allocate(probe.regs) = -1]
    /\ UNCHANGED <<phase, tree, gen, image, vmvars, saved, popped>>

FreeRegister ==
    /\ phase = "registers"
    /\ ~probe.panicked
    /\ \E register \in 0..NumRegisters - 1 :
         probe' = [regs |-> free_register(probe.regs, register),
                   op |-> "free", reg |-> register,
                   held |-> probe.held \ {register}, panicked |-> FALSE]
    /\ UNCHANGED <<phase, tree, gen, image, vmvars, saved, popped>>

SetStartWindow ==
    /\ phase = "registers"
    /\ ~probe.panicked
    /\ \E window \in 0..1 :
         probe' = [probe EXCEPT !.regs = set_start_window(@, window),
                                !.op = "window", !.reg = window]
    /\ UNCHANGED <<phase, tree, gen, image, vmvars, saved, popped>>

InitRegisters ==
    /\ Quiet("registers")
    /\ probe = [regs |-> RegistersNew(NumRegisters), op |-> "new", reg |-> 0,
                held |-> {}, panicked |-> FALSE]

NextRegisters == Allocate \/ FreeRegister \/ SetStartWindow

SpecRegisters == InitRegisters /\ [][NextRegisters]_vars

\* ---- cyasm/assembler.rs: the register-form assembler ----
\* The text is a sequence of characters.  A cell of the bytecode is an
\* opcode constant of cvm::constants by name (k = "op"), a byte
\* (k = "byte"), the byte of a character (k = "char") or byte b of a
\* float's bit pattern (k = "f64").
Cmd(name) == [k |-> "op", b |-> 0, s |-> name]
Byte(n) == [k |-> "byte", b |-> n, s |-> ""]
CharByte(c) == [k |-> "char", b |-> 0, s |-> c]

DigitChars == <<"0", "1", "2", "3", "4", "5", "6", "7", "8", "9">>

Letters ==
    {"a", "b", "c", "d", "e", "f", "g", "h", "i", "j", "k", "l", "m", "n",
     "o", "p", "q", "r", "s", "t", "u", "v", "w", "x", "y", "z"}

is_numeric(c) == \E i \in 1..Len(DigitChars) : DigitChars[i] = c
is_alphabetic(c) == c \in Letters
is_whitespace(c) == c \in {" ", "\t", "\n"}

DigitValue(c) == (CHOOSE i \in 1..Len(DigitChars) : DigitChars[i] = c) - 1

\* to_le_bytes of an unsigned value, width bytes
RECURSIVE to_le_bytes(_, _)
to_le_bytes(n, width) ==
    IF width = 0 THEN <<>>
    ELSE <<Byte(n % 256)>> \o to_le_bytes(n \div 256, width - 1)

\* Parser::new
ParserNew(asm) == [asm |-> asm, line |-> 1, bytecode |-> <<>>, st |-> "ok"]

\* Parser::advance
advance(p) == [p EXCEPT !.asm = Tail(@)]

\* Parser::make_number_string: [s, p]
RECURSIVE make_number_string_from(_, _)
make_number_string_from(p, s) ==
    IF p.asm # <<>> /\ (is_numeric(Head(p.asm)) \/ Head(p.asm) = ".")
    THEN make_number_string_from(advance(p), Append(s, Head(p.asm)))
    ELSE [s |-> s, p |-> p]

make_number_string(p) == make_number_string_from(p, <<>>)

\* str::parse of an unsigned decimal: -1 when parse(...).unwrap() panics
RECURSIVE parse_digits(_, _)
parse_digits(s, acc) ==
    IF s = <<>> THEN acc
    ELSE IF ~is_numeric(Head(s)) THEN -1
    ELSE parse_digits(Tail(s), acc * 10 + DigitValue(Head(s)))

parse(s, max) ==
    IF s = <<>> THEN -1
    ELSE IF parse_digits(s, 0) > max THEN -1 ELSE parse_digits(s, 0)

\* Parser::match_string: whether the text starts with value
match_string(p, value) ==
    Len(p.asm) >= Len(value) /\ SubSeq(p.asm, 1, Len(value)) = value

\* Parser::get_line: [line, p]
RECURSIVE get_line_from(_, _)
get_line_from(p, line) ==
    IF p.asm = <<>> THEN [line |-> line, p |-> p]
    ELSE IF Head(p.asm) = "\n" THEN [line |-> line, p |-> advance(p)]
    ELSE get_line_from(advance(p), Append(line, Head(p.asm)))

get_line(p) == get_line_from(p, <<>>)

\* str::trim
RECURSIVE trim_start(_)
trim_start(s) ==
    IF s # <<>> /\ is_whitespace(Head(s)) THEN trim_start(Tail(s)) ELSE s

RECURSIVE trim_end(_)
trim_end(s) ==
    IF s # <<>> /\ is_whitespace(s[Len(s)])
    THEN trim_end(SubSeq(s, 1, Len(s) - 1)) ELSE s

trim(s) == trim_end(trim_start(s))

\* the directive and its end marker, as characters
ConstantsDirective == <<".", "c", "o", "n", "s", "t", "a", "n", "t", "s">>
EndDirective == <<".", "e", "n", "d">>

\* Parser::write_constants, from the first line on
RECURSIVE write_constants_from(_, _)
write_constants_from(p, const_count) ==
    IF p.asm = <<>> THEN [p EXCEPT !.st = "hang"]
    ELSE LET l == get_line(p)
             line == trim(l.line)
         IN  IF line = EndDirective
             THEN [l.p EXCEPT !.bytecode = to_le_bytes(const_count, 4) \o @]
             ELSE IF line = <<>> THEN write_constants_from(l.p, const_count)
             ELSE write_constants_from(
                    [l.p EXCEPT !.bytecode =
                        @ \o to_le_bytes(Len(line), 4)
                          \o [i \in 1..Len(line) |-> CharByte(line[i])]],
                    const_count + 1)

write_constants(p) == write_constants_from(p, 0)

\* Parser::emit_command
emit_command(p, code) == [p EXCEPT !.bytecode = Append(@, Cmd(code))]

\* Parser::emit_operand
emit_operand(p, bytes) == [p EXCEPT !.bytecode = @ \o bytes]

\* emit_register writing the high byte first
emit_register_m(p, reg_number) ==
    [p EXCEPT !.bytecode =
        @ \o <<Byte(reg_number \div 256), Byte(reg_number % 256)>>]

\* Parser::emit_register
emit_register(p, reg_number) ==
    [p EXCEPT !.bytecode = @ \o to_le_bytes(reg_number, 2)]

\* the arms of Parser::match_keyword
KeywordArms ==
    <<<<<<"i", "m", "o", "v">>, "IMOV">>,
      <<<<"i", "a", "d", "d">>, "IADD">>,
      <<<<"i", "s", "u", "b">>, "ISUB">>,
      <<<<"i", "m", "u", "l">>, "IMUL">>,
      <<<<"i", "d", "i", "v">>, "IDIV">>,
      <<<<"i", "e", "q", "u">>, "IEQU">>,
      <<<<"f", "m", "o", "v">>, "FMOV">>,
      <<<<"s", "m", "o", "v">>, "SMOV">>,
      <<<<"f", "a", "d", "d">>, "FADD">>,
      <<<<"f", "s", "u", "b">>, "FSUB">>,
      <<<<"f", "m", "u", "l">>, "FMUL">>,
      <<<<"f", "d", "i", "v">>, "FDIV">>,
      <<<<"i", "d", "e", "c">>, "IDEC">>,
      <<<<"c", "m", "p">>, "CMP">>,
      <<<<"i", "i", "n", "c">>, "IINC">>,
      <<<<"s", "t", "o", "r", "e">>, "STORE">>,
      <<<<"i", "s", "t", "o", "r", "e">>, "ISTORE">>,
      <<<<"s", "s", "t", "o", "r", "e">>, "SSTORE">>,
      <<<<"l", "o", "a", "d">>, "LOAD">>,
      <<<<"i", "p", "r", "i", "n", "t">>, "IPRINT">>,
      <<<<"s", "p", "r", "i", "n", "t">>, "SPRINT">>,
      <<<<"i", "n", "e", "g">>, "INEG">>>>

\* Parser::match_keyword: the constant's name, "" for None
match_keyword(keyword) ==
    IF \E i \in 1..Len(KeywordArms) : KeywordArms[i][1] = keyword
    THEN KeywordArms[CHOOSE i \in 1..Len(KeywordArms) :
                       KeywordArms[i][1] = keyword][2]
    ELSE ""

\* the rest of a string literal, up to and with its closing quote
RECURSIVE skip_string(_)
skip_string(p) ==
    IF p.asm = <<>> THEN p
    ELSE IF Head(p.asm) = "\"" THEN advance(p) ELSE skip_string(advance(p))

\* the rest of a word of letters: [s, p]
RECURSIVE word_from(_, _)
word_from(p, s) ==
    IF p.asm # <<>> /\ is_alphabetic(Head(p.asm))
    THEN word_from(advance(p), Append(s, Head(p.asm)))
    ELSE [s |-> s, p |-> p]

\* s.parse::<f64>().unwrap().to_le_bytes(): the bit pattern is not computed
f64_le_bytes(s) ==
    IF Len(s) >= 2 /\ Cardinality({i \in 1..Len(s) : s[i] = "."}) = 1
    THEN [i \in 1..8 |-> [k |-> "f64", b |-> i - 1, s |-> ""]]
    ELSE <<>>

\* the branch of assemble for a number (values stay far below i64::MAX)
assemble_number(p) ==
    LET n == make_number_string(p)
    IN  IF \E i \in 1..Len(n.s) : n.s[i] = "."
        THEN IF f64_le_bytes(n.s) = <<>> THEN [n.p EXCEPT !.st = "panic"]
             ELSE emit_operand(n.p, f64_le_bytes(n.s))
        ELSE emit_operand(n.p, to_le_bytes(parse_digits(n.s, 0), 8))

\* the branch of assemble for `%`
assemble_register(p) ==
    LET p1 == advance(p)
    IN  IF p1.asm = <<>> THEN p1
        ELSE IF Head(p1.asm) \in {"r", "m"}
        THEN LET n == make_number_string(advance(p1))
             IN  IF parse(n.s, 65535) = -1 THEN [n.p EXCEPT !.st = "panic"]
                 ELSE emit_register(n.p, parse(n.s, 65535))
        ELSE [advance(p1) EXCEPT !.st = "panic"]

\* one iteration of the loop of Parser::assemble; a character that no
\* branch consumes is looked at forever
assemble_step(p) ==
    LET c == Head(p.asm)
        p1 == IF c = "\"" THEN skip_string(advance(p)) ELSE p
        w == word_from(advance(p1), <<c>>)
    IN  IF match_string(p, ConstantsDirective)
        THEN write_constants(
               [p EXCEPT !.asm = SubSeq(@, Len(ConstantsDirective) + 1,
                                        Len(@))])
        ELSE IF c = "\n" THEN [advance(p) EXCEPT !.line = @ + 1]
        ELSE IF is_whitespace(c) \/ c \in {",", ";"} THEN advance(p)
        ELSE IF is_alphabetic(c)
        THEN IF match_keyword(w.s) # ""
             THEN emit_command(w.p, match_keyword(w.s)) ELSE w.p
        ELSE IF is_numeric(c) THEN assemble_number(p1)
        ELSE IF c = "%" THEN assemble_register(p1)
        ELSE IF c = "\"" THEN p1
        ELSE [p EXCEPT !.st = "hang"]

\* the end of Parser::assemble
assemble_end(p) == [p EXCEPT !.bytecode = Append(@, Byte(0))]

\* source texts: up to MaxAsmLines instructions, one per line
MaxAsmLines == 2

Reg(n) == [k |-> "r", n |-> n]
Mem(n) == [k |-> "m", n |-> n]
Imm(n) == [k |-> "i", n |-> n]
Instr(mn, ops) == [mn |-> mn, ops |-> ops]

AsmInstrs ==
    {Instr(<<"i", "m", "o", "v">>, <<Reg(0), Imm(4)>>),
     Instr(<<"i", "m", "o", "v">>, <<Reg(1), Imm(300)>>),
     Instr(<<"i", "a", "d", "d">>, <<Reg(0), Reg(1)>>),
     Instr(<<"i", "s", "t", "o", "r", "e">>, <<Mem(258), Reg(0)>>),
     Instr(<<"l", "o", "a", "d">>, <<Reg(12), Mem(1)>>),
     Instr(<<"i", "p", "r", "i", "n", "t">>, <<Reg(0)>>)}

AsmSources ==
    UNION {[1..n -> AsmInstrs] : n \in 1..MaxAsmLines}

\* a number in decimal, as characters
NumberChars(n) == [i \in 1..Len(Digits(n)) |-> DigitChars[Digits(n)[i] + 1]]

OperandChars(op) ==
    IF op.k = "i" THEN NumberChars(op.n)
    ELSE <<"%", op.k>> \o NumberChars(op.n)

RECURSIVE OperandsChars(_, _, _)
OperandsChars(ops, i, sep) ==
    IF i > Len(ops) THEN <<>>
    ELSE (IF i > 1 THEN sep ELSE <<>>) \o OperandChars(ops[i])
         \o OperandsChars(ops, i + 1, sep)

\* "    imov %r0, 4 ;" and a newline, or "imov%r0,4;"
LineChars(ins, style) ==
    IF style = "spaced"
    THEN <<" ", " ", " ", " ">> \o ins.mn \o <<" ">>
         \o OperandsChars(ins.ops, 1, <<",", " ">>) \o <<" ", ";", "\n">>
    ELSE ins.mn \o OperandsChars(ins.ops, 1, <<",">>) \o <<";">>

RECURSIVE SourceChars(_, _, _)
SourceChars(source, i, style) ==
    IF i > Len(source) THEN <<>>
    ELSE LineChars(source[i], style) \o SourceChars(source, i + 1, style)

\* probe.source: the instructions the text was written from
AsmStep ==
    /\ phase = "asm"
    /\ ~probe.done
    /\ probe.parser.st = "ok"
    /\ probe.parser.asm # <<>>
    /\ probe' = [probe EXCEPT !.parser = assemble_step(@)]
    /\ UNCHANGED <<phase, tree, gen, image, vmvars, saved, popped>>

AsmEnd ==
    /\ phase = "asm"
    /\ ~probe.done
    /\ probe.parser.st = "ok"
    /\ probe.parser.asm = <<>>
    /\ probe' = [probe EXCEPT !.parser = assemble_end(@), !.done = TRUE]
    /\ UNCHANGED <<phase, tree, gen, image, vmvars, saved, popped>>

InitAsm ==
    /\ Quiet("asm")
    /\ probe \in {[parser |-> ParserNew(SourceChars(source, 1, style)),
                   done |-> FALSE, source |-> source, style |-> style] :
                    source \in AsmSources, style \in {"spaced", "tight"}}

NextAsm == AsmStep \/ AsmEnd

SpecAsm == InitAsm /\ [][NextAsm]_vars

\* ---- the opcode table on its own ----

Ops == 0..Len(Variants) - 1

AsStrStep ==
    /\ phase = "opcode"
    /\ probe.stage = "op"
    /\ probe' = [probe EXCEPT !.stage = "name", !.name = as_str(probe.op)]
    /\ UNCHANGED <<phase, tree, gen, image, vmvars, saved, popped>>

MatchInstructionStep ==
    /\ phase = "opcode"
    /\ probe.stage = "name"
    /\ probe' = [probe EXCEPT !.stage = "matched",
                              !.code = match_instruction(probe.name)]
    /\ UNCHANGED <<phase, tree, gen, image, vmvars, saved, popped>>

FromU8Step ==
    /\ phase = "opcode"
    /\ probe.stage = "op"
    /\ probe' = [probe EXCEPT !.stage = "decoded", !.code = from_u8(probe.op)]
    /\ UNCHANGED <<phase, tree, gen, image, vmvars, saved, popped>>

InitOpcode ==
    /\ Quiet("opcode")
    /\ probe \in {[op |-> o, stage |-> "op", name |-> "", code |-> -1] :
                    o \in Ops}

NextOpcode == AsStrStep \/ MatchInstructionStep \/ FromU8Step

SpecOpcode == InitOpcode /\ [][NextOpcode]_vars

\* ---- one IrGenerator kept across the lines of a repl session ----

\* lines lowered by one generator
MaxLines == 3

\* print 1; print "hi"; let x = 1; a loop with a break; an if/else
ReplProgs ==
    {Main(<<PrintOf(IntLit(1))>>), Main(<<PrintOf(TextLit("hi"))>>),
     Main(<<Let("x", IntLit(1))>>),
     Main(<<Let("x", IntLit(0)),
            While(Cond, Braced(<<Incr, Leaf("Break")>>))>>),
     MiscProg5}

\* generator.generate(&node) on the generator of the lines before
ReplGenerate ==
    /\ phase = "repl"
    /\ Len(saved) < MaxLines
    /\ ~gen.fatal
    /\ \E node \in ReplProgs :
         /\ tree' = node
         /\ gen' = ir_generate(gen, node)
         /\ saved' = Append(saved, "generate")
    /\ UNCHANGED <<phase, image, vmvars, popped, probe>>

\* generator.clear()
ReplClear ==
    /\ phase = "repl"
    /\ Len(saved) < MaxLines
    /\ ~gen.fatal
    /\ gen' = clear(gen)
    /\ saved' = Append(saved, "clear")
    /\ UNCHANGED <<phase, tree, image, vmvars, popped, probe>>

InitRepl == Quiet("repl") /\ probe = <<>>

NextRepl == ReplGenerate \/ ReplClear

SpecRepl == InitRepl /\ [][NextRepl]_vars

InstrsOf(g, i, ops) ==
    {j \in 1..Len(g.functions[i].instructions) :
        g.functions[i].instructions[j].op \in ops}

SlotSafety(g) ==
    \A i \in 1..Len(g.functions) :
      \A j \in InstrsOf(g, i, {"load", "store"}) :
        g.functions[i].instructions[j].arg < g.functions[i].slots

\* C1: slot safety.  In the generator's output every `load k` / `store k`
\* of a function has k strictly less than the slots of that function's
\* .sub header.
C1_SlotSafety == (phase = "generated" /\ ~gen.fatal) => SlotSafety(gen)

JumpClosure(g) ==
    \A i \in 1..Len(g.functions) :
      \A j \in InstrsOf(g, i, {"jmp", "jmpfalse"}) :
        LET target == g.functions[i].instructions[j].arg
        IN  /\ 0 <= target
            /\ target < calculate_bytes(g.functions[i])
            /\ \E t \in 1..Len(g.functions[i].instructions) :
                 g.functions[i].instructions[t].start_location = target

\* C2: jump closure.  After a fresh generator lowers a tree nesting
\* If/Else, While, For, Break and Continue, the operand of every jmp and
\* jmpfalse is the start offset of an instruction of the same function,
\* within the function's bytes.
C2_JumpClosure == (phase # "source" /\ ~gen.fatal) => JumpClosure(gen)

\* a loop nested in a loop was lowered: forward and backward jumps, a
\* patched break, all in one function
C2_Witness ==
    /\ phase = "generated"
    /\ ~gen.fatal
    /\ tree \in ControlProgs
    /\ \E j \in InstrsOf(gen, 1, {"jmp"}) :
         /\ gen.functions[1].instructions[j].arg
              > gen.functions[1].instructions[j].start_location
         /\ \E b \in InstrsOf(gen, 1, {"jmp"}) :
              /\ b > j
              /\ gen.functions[1].instructions[b].arg
                   < gen.functions[1].instructions[j].start_location
    /\ Cardinality(InstrsOf(gen, 1, {"jmpfalse"})) >= 2

RECURSIVE SumVarCount(_, _)
SumVarCount(tables, n) ==
    IF n = 0 THEN 0 ELSE tables[n].var_count + SumVarCount(tables, n - 1)

\* C3: scope stability.  After a pop_scope, offset and scope equal their
\* values just before the matching push_scope, whatever was declared and
\* nested in between, the tables of the enclosing scopes are as they were,
\* and offset is always the sum of var_count over the scopes below the
\* innermost one.
C3_ScopeStability ==
    /\ gen.offset = SumVarCount(gen.symbol_loc, gen.scope)
    /\ popped # <<>> =>
         /\ popped[1].offset = popped[1].before.offset
         /\ popped[1].scope = popped[1].before.scope
         /\ popped[1].symbol_loc = popped[1].before.symbol_loc

\* a scope with declarations, opened inside a scope with declarations, has
\* just been popped
C3_Witness ==
    /\ popped # <<>>
    /\ popped[1].before.stores > 0
    /\ popped[1].before.scope > 0
    /\ popped[1].before.offset > 0

\* a `call` that pushed its frame
CallStep ==
    /\ Fetched = "call"
    /\ status' = "running"
    /\ Len(stack_frame') = Len(stack_frame) + 1

\* the function a `call` about to execute names
Callee == functions[operand(AfterFetch, "u16", 2).v + 1]

\* C4: executing `call idx` pushes exactly one frame whose function is
\* registry[idx], with ip = 0, start = caller.sp - arity and
\* sp = start + slots; the caller's frame is unchanged except that its ip is
\* past the 2-byte operand.
C4_CallFrame ==
    [][CallStep =>
        LET n == Len(stack_frame)
            caller == stack_frame[n]
            callee == stack_frame'[n + 1]
        IN  /\ callee.function = Callee
            /\ callee.ip = 0
            /\ callee.start_sp = caller.sp - Callee.arity
            /\ callee.sp = callee.start_sp + Callee.slots
            /\ SubSeq(stack_frame', 1, n)
                 = [stack_frame EXCEPT ![n].ip = @ + 3]]_vars

\* C5: argument binding.  When the caller has pushed v0..v(a-1) and calls a
\* function of arity a, slot k of the callee (what `load k` pushes) holds
\* vk, for every k < a and every caller frame.
C5_ArgumentBinding ==
    [][CallStep =>
        LET n == Len(stack_frame)
            caller == stack_frame[n]
            a == Callee.arity
        IN  \A k \in 0..(a - 1) :
              stack'[stack_frame'[n + 1].start_sp + k + 1]
                = stack[caller.start_sp + caller.sp - a + k + 1]]_vars

\* a `return` executed by a called function
ReturnStep == Fetched = "return" /\ Len(stack_frame) > 2

\* C6: stack balance.  After the `return` of a function of arity a the
\* caller is the current frame again, at the instruction after the call,
\* with its sp lowered by a.
C6_StackBalance ==
    [][ReturnStep =>
        LET n == Len(stack_frame)
            caller == stack_frame[n - 1]
            callee == stack_frame[n]
        IN  /\ status' = "running"
            /\ Len(stack_frame') = n - 1
            /\ stack_frame'[n - 1].function = caller.function
            /\ stack_frame'[n - 1].ip = caller.ip
            /\ stack_frame'[n - 1].start_sp = caller.start_sp
            /\ stack_frame'[n - 1].sp
                 = caller.sp - callee.function.arity]_vars

\* the run of the program is over
Finished == phase = "loaded" /\ status # "running"

\* a, a + 1, ..., b - 1 as printed values
Ascending(a, b) ==
    [k \in 1..(IF b > a THEN b - a ELSE 0) |-> IntObj(a + k - 1)]

\* C7: `for x in a to b` runs its body once for each x = a, ..., b - 1 in
\* ascending order and never with x = b.
C7_RangeFor ==
    \A a \in 0..1, b \in 0..3 :
      (tree = ForProg(a, b) /\ Finished) =>
        (status = "halted" /\ output = Ascending(a, b))

\* C8: the while-accumulation program terminates at halt and prints only 10.
C8_WhileAccumulation ==
    (tree = WhileAccProg /\ Finished) =>
      (status = "halted" /\ output = <<IntObj(10)>>)

\* an `index k` about to execute with an integer index inside the array
\* held by slot k
IndexStep ==
    /\ Fetched = "index"
    /\ LET k == operand(pop(AfterFetch), "u16", 2)
           i == popv(Machine)
       IN  /\ k.st = "ok"
           /\ i.tag = "Integer"
           /\ ~IsPanic(slot_get(Machine, k.v))
           /\ slot_get(Machine, k.v).tag = "Array"
           /\ 0 <= i.data
           /\ i.data < slot_get(Machine, k.v).table[1].array_length

\* C9: array indexing.  `index k` with an integer index i inside the array
\* of slot k pops the index, pushes element i and leaves slot k unchanged.
C9_ArrayIndex ==
    [][IndexStep =>
        LET n == Len(stack_frame)
            f == stack_frame[n]
            k == operand(pop(AfterFetch), "u16", 2).v
            arr == slot_get(Machine, k)
            i == popv(Machine).data
        IN  /\ status' = "running"
            /\ stack_frame'[n].sp = f.sp
            /\ stack'[f.start_sp + f.sp] = arr.table[1].array[i + 1]
            /\ stack'[f.start_sp + k + 1] = arr]_vars

\* the value of a OP b
Expected(op, a, b) ==
    CASE op = "Sub" -> IntObj(a - b)
      [] op = "Div" -> IntObj(DivData(a, b))
      [] op = "GreaterThan" -> BoolObj(a > b)
      [] op = "GreaterThanEqual" -> BoolObj(a >= b)
      [] op = "LessThan" -> BoolObj(a < b)
      [] op = "LessThanEqual" -> BoolObj(a <= b)

First == popv(AfterFetch)
Second == popv(pop(AfterFetch))

\* a binary instruction of the given kind is about to execute on two values
BinaryStep(ops) ==
    /\ Fetched \in ops
    /\ stack_frame[Len(stack_frame)].sp >= 2

\* the value on top of the stack after a binary instruction
Result ==
    LET f == stack_frame[Len(stack_frame)]
    IN  stack'[f.start_sp + f.sp - 1]

Pushed(tag) ==
    /\ status' = "running"
    /\ stack_frame'[Len(stack_frame)].sp = stack_frame[Len(stack_frame)].sp - 1
    /\ Result.tag = tag

\* C11: numeric typing.  add, sub, mul and div of two Integers give an
\* Integer; of two numeric operands with at least one Float, a Float; any
\* other combination, apart from Nil with Nil, is fatal.
C11_NumericTyping ==
    [][BinaryStep({"add", "sub", "mul", "div"}) =>
        CASE First.tag = "Integer" /\ Second.tag = "Integer" ->
                Pushed("Integer")
          [] Numeric(First.tag) /\ Numeric(Second.tag)
                /\ "Float" \in {First.tag, Second.tag} -> Pushed("Float")
          [] First.tag = "Nil" /\ Second.tag = "Nil" -> TRUE
          [] OTHER -> status' = "fatal"]_vars

\* 2 - 1.0 was computed and printed as the Float 1
C11_Witness ==
    /\ Finished
    /\ image = BinaryImage("sub", [kind |-> "Integer", v |-> 2],
                           [kind |-> "Float", v |-> 1])
    /\ output = <<FloatObj(1)>>

\* C12: div of two Integers with divisor 0 is fatal; no result is pushed
\* or printed.
C12_DivByZero ==
    [][(BinaryStep({"div"}) /\ First.tag = "Integer"
          /\ Second.tag = "Integer" /\ Second.data = 0) =>
        (status' = "fatal" /\ output' = output)]_vars

Not(b) == BoolObj(b = BoolObj(FALSE))

\* C13: comparison antisymmetry.  For numeric a and b, a < b equals b > a
\* and a <= b equals not (a > b).
C13_Antisymmetry ==
    (image \in OrderImages /\ Finished) =>
      /\ status = "halted"
      /\ Len(output) = 4
      /\ output[1] = output[2]
      /\ output[3] = Not(output[4])

\* 1 and 1.0 were compared: 1 < 1.0 and 1.0 > 1 are false, 1 <= 1.0 is true
C13_Witness ==
    /\ Finished
    /\ image = OrderImage([kind |-> "Integer", v |-> 1],
                          [kind |-> "Float", v |-> 1])
    /\ output = <<BoolObj(FALSE), BoolObj(FALSE), BoolObj(TRUE),
                  BoolObj(FALSE)>>

\* C14: equality is per-variant.  eq of two values of different variants is
\* false, and neq is the negation of eq.
C14_VariantEquality ==
    [][/\ BinaryStep({"eq", "neq"}) =>
            /\ Pushed("Bool")
            /\ First.tag # Second.tag => Result = BoolObj(Fetched = "neq")
       /\ (image \in EqImages /\ Finished)' =>
            (status' = "halted" /\ Len(output') = 2
               /\ output'[2] = Not(output'[1]))]_vars

\* Integer 1 and Float 1.0 were compared: not equal
C14_Witness ==
    /\ Finished
    /\ image = EqImage([kind |-> "Integer", v |-> 1],
                       [kind |-> "Float", v |-> 1])
    /\ output = <<BoolObj(FALSE), BoolObj(TRUE)>>

NonNumeric(tag) == tag \in {"Bool", "Text", "Array"}

\* C15: an ordering comparison with an operand that is not numeric is
\* fatal, whatever the other operand.
C15_OrderingNumeric ==
    [][(BinaryStep({"gt", "ge", "lt", "le"})
          /\ (NonNumeric(First.tag) \/ NonNumeric(Second.tag))) =>
        status' = "fatal"]_vars

\* C16: jmpfalse on a popped value that is not a Bool is fatal.
C16_JmpFalseBool ==
    [][(Fetched = "jmpfalse" /\ stack_frame[Len(stack_frame)].sp >= 1
          /\ First.tag # "Bool"
          /\ operand(AfterFetch, "u32", 4).st = "ok") =>
        status' = "fatal"]_vars

ReadAfterWrite ==
    \A i \in 0..MaxIndex + 1 : TableGet(probe.table, i) = probe.written[i]

\* C17: Table read-after-write.  After any sequence of push and set, get(i)
\* is the value of the latest write to index i, None for an index never
\* written, and a write to another index leaves get(i) alone.
C17_ReadAfterWrite ==
    [][/\ ReadAfterWrite'
       /\ \A i \in 0..MaxIndex + 1 :
            i # probe'.last =>
              TableGet(probe'.table, i) = TableGet(probe.table, i)]_vars

\* index 3 was set while out of range, then reached by pushes: the hash
\* still holds the old value and get(3) is the pushed one
C17_Witness ==
    /\ phase = "table"
    /\ probe.table.array_length = 4
    /\ <<to_string(3), 1>> \in probe.table.hash
    /\ probe.table.array[4] = 2
    /\ probe.written[3] = <<2>>

\* C18: string-pool interning.  After any sequence of get_string_location
\* calls the pool has no two equal strings, strings_index is the pool
\* length, a call with a pooled string returns its index and leaves the
\* pool alone, and an index once returned for a string stays its index.
C18_Interning ==
    phase = "strings" =>
      /\ \A i, j \in 1..Len(gen.string_pool) :
           gen.string_pool[i] = gen.string_pool[j] => i = j
      /\ gen.strings_index = Len(gen.string_pool)
      /\ \A l \in {probe.last[k] : k \in 1..Len(probe.last)} :
           /\ l.index < Len(gen.string_pool)
           /\ gen.string_pool[l.index + 1] = l.string
           /\ position(l.before, l.string) # -1 =>
                /\ gen.string_pool = l.before
                /\ l.index = position(l.before, l.string)
      /\ \A r \in probe.returned :
           /\ r[2] < Len(gen.string_pool)
           /\ gen.string_pool[r[2] + 1] = r[1]

\* "no" was asked for again after "hi" had been added behind it
C18_Witness ==
    /\ phase = "strings"
    /\ gen.string_pool = <<"yes", "no", "hi">>
    /\ probe.last = <<[before |-> <<"yes", "no", "hi">>, string |-> "no",
                       index |-> 1]>>

\* C19: opcode table consistency.  For each of the 38 instructions op,
\* from_u8(op) = op and match_instruction(as_str(op)) = op.
C19_OpcodeTable ==
    phase = "opcode" =>
      /\ Len(Variants) = 38
      /\ probe.stage \in {"matched", "decoded"} => probe.code = probe.op

Size(op) ==
    CASE op = "push" -> 10
      [] op = "spush" -> 6
      [] op = "bpush" -> 3
      [] op \in {"load", "store", "astore", "index", "newarray", "call"} -> 3
      [] op \in {"jmp", "jmpfalse"} -> 5
      [] OTHER -> 1

\* the sizes of the claim as stated
StatedSize(op) ==
    CASE op = "spush" -> 5
      [] op = "bpush" -> 2
      [] OTHER -> Size(op)

Sized(g, size(_)) ==
    \A i \in 1..Len(g.functions) :
      LET is == g.functions[i].instructions
      IN  /\ \A j \in 1..Len(is) :
                /\ is[j].instruction_size = size(is[j].op)
                /\ is[j].start_location
                     = IF j = 1 THEN 0
                       ELSE is[j - 1].start_location + size(is[j - 1].op)
          /\ Len(is) > 0 =>
               g.functions[i].current_location
                 = is[Len(is)].start_location + size(is[Len(is)].op)

\* C20: instruction sizes.  Each emitted instruction records, and advances
\* current_location by: push 10, spush 6, bpush 3; load, store, astore,
\* index, newarray and call 3; jmp and jmpfalse 5; every other mnemonic 1.
C20_InstructionSizes == (phase = "generated" /\ ~gen.fatal) => Sized(gen, Size)

\* a text and a boolean literal were lowered next to a jump
C20_Witness ==
    /\ phase = "generated"
    /\ ~gen.fatal
    /\ tree = MiscProg5
    /\ \E i \in 1..Len(gen.functions) :
         /\ InstrsOf(gen, i, {"spush"}) # {}
         /\ InstrsOf(gen, i, {"bpush"}) # {}
         /\ InstrsOf(gen, i, {"jmpfalse"}) # {}

\* C20 as stated: spush 5 and bpush 2.
C20_StatedSizes ==
    (phase = "generated" /\ ~gen.fatal) => Sized(gen, StatedSize)

RECURSIVE Stray(_)
\* a Break or Continue of the tree that no While or For encloses
Stray(node) ==
    \/ node.type \in {"Break", "Continue"}
    \/ /\ node.type \notin {"While", "For"}
       /\ \E i \in 1..Len(node.children) : Stray(node.children[i])

\* C21: lowering a Break or Continue while no loop is open is a fatal
\* generation error.
C21_StrayBreak == (phase = "generated" /\ Stray(tree)) => gen.fatal

RECURSIVE NamesOf(_, _)
\* the names of the nodes of one type in a tree
NamesOf(node, type) ==
    (IF node.type = type THEN {node.name} ELSE {})
    \cup UNION {NamesOf(node.children[i], type) :
                  i \in 1..Len(node.children)}

\* C22: when a program calls a function name that no Function node
\* defines, generation ends with a fatal error.
C22_UndefinedCall ==
    (phase = "generated"
       /\ ~(NamesOf(tree, "Call") \subseteq NamesOf(tree, "Function")))
      => gen.fatal

\* C23: the frame stack is non-empty at every fetch, and once a return has
\* popped the entry frame execution ends as with halt: nothing more is
\* fetched and nothing fails.
C23_EntryReturn ==
    [][/\ Running => Len(stack_frame) >= 1
       /\ (Running /\ Len(stack_frame) = 1) => status' = "halted"]_vars

\* C24: a call executed when the frame stack already holds FRAMES_DEPTH
\* frames is fatal.
C24_FrameBound ==
    [][(Fetched = "call" /\ Len(stack_frame) >= FRAMES_DEPTH) =>
        status' = "fatal"]_vars

Free(regs) == {i \in 0..Len(regs.stack) - 1 : regs.stack[i + 1]}

\* C25: register allocation.  allocate returns the smallest register that
\* is free and marks it in use, so no register is handed out twice without
\* a free_register of it in between, and a freed register is the next
\* result when it is the lowest free one.
C25_RegisterAllocation ==
    [][phase = "registers" =>
        /\ (probe'.op = "allocate" /\ ~probe'.panicked) =>
             /\ probe'.reg \in Free(probe.regs)
             /\ \A i \in Free(probe.regs) : probe'.reg <= i
             /\ probe'.reg \notin probe.held
             /\ Free(probe'.regs) = Free(probe.regs) \ {probe'.reg}
        /\ (probe'.op = "allocate" /\ probe'.panicked) =>
             Free(probe.regs) = {}
        /\ probe'.op = "free" =>
             Free(probe'.regs) = Free(probe.regs) \cup {probe'.reg}]_vars

\* registers 0, 1 and 2 were handed out, 1 was freed and allocate returned
\* it again
C25_Witness ==
    /\ phase = "registers"
    /\ probe.op = "allocate"
    /\ probe.reg = 1
    /\ probe.held = {0, 1, 2}

\* n in width bytes, least significant first (n is below 256^3)
LittleEndian(n, width) ==
    [i \in 1..width |->
        Byte(IF i > 3 THEN 0 ELSE (n \div 256 ^ (i - 1)) % 256)]

RECURSIVE Layout(_, _)
\* one opcode byte per mnemonic, 2 bytes per register or memory operand and
\* 8 bytes per immediate, in source order
Layout(source, i) ==
    IF i > Len(source) THEN <<>>
    ELSE LET ops == source[i].ops
             bytes(j) == LittleEndian(ops[j].n,
                                      IF ops[j].k = "i" THEN 8 ELSE 2)
         IN  <<Cmd(match_keyword(source[i].mn))>> \o bytes(1)
             \o (IF Len(ops) > 1 THEN bytes(2) ELSE <<>>)
             \o Layout(source, i + 1)

\* C26: assembler encoding.  For a sequence of recognised instructions
\* assemble emits, in source order, one opcode byte per mnemonic, 2
\* little-endian bytes per %rN / %mN operand and 8 little-endian bytes per
\* integer immediate, whatever the whitespace, `,` and `;`, and one
\* terminating 0 byte at the end.
C26_AssemblerEncoding ==
    phase = "asm" =>
      /\ probe.parser.st = "ok"
      /\ probe.done =>
           probe.parser.bytecode = Layout(probe.source, 1) \o <<Byte(0)>>

\* istore %m258, %r0 ; imov %r1, 300 ; was assembled from spaced lines
C26_Witness ==
    /\ phase = "asm"
    /\ probe.done
    /\ probe.style = "spaced"
    /\ Len(probe.source) = 2
    /\ probe.source[1].ops = <<Mem(258), Reg(0)>>
    /\ probe.source[2].ops = <<Reg(1), Imm(300)>>
    /\ SubSeq(probe.parser.bytecode, 1, 5)
         = <<Cmd("ISTORE"), Byte(2), Byte(1), Byte(0), Byte(0)>>
    /\ Len(probe.parser.bytecode) = 17

Said(str) == StrObj(StrId(str))

BackJumps(is) ==
    {b \in 1..Len(is) : /\ is[b].op = "jmp" /\ is[b].comment = ""
                        /\ is[b].arg <= is[b].start_location}

\* the closing jumps of the loops around instruction j
Enclosing(is, j) ==
    {b \in BackJumps(is) : /\ is[b].arg <= is[j].start_location
                           /\ is[j].start_location < is[b].start_location}

Innermost(is, j) ==
    CHOOSE b \in Enclosing(is, j) : \A c \in Enclosing(is, j) : b <= c

\* every jump of a break or continue is rewritten for its innermost loop
Patched(is) ==
    \A j \in 1..Len(is) :
      /\ is[j].comment \notin {"inner break", "inner continue"}
      /\ is[j].comment # "" =>
           /\ is[j].op = "jmp"
           /\ Enclosing(is, j) # {}
           /\ LET b == Innermost(is, j)
              IN  CASE is[j].comment \in {"# break", "break"} ->
                         is[j].arg = is[b].start_location
                                       + is[b].instruction_size
                    [] is[j].comment = "# continue" -> is[j].arg = is[b].arg
                    [] is[j].comment = "continue" ->
                         b > 4 /\ is[j].arg = is[b - 4].start_location
                    [] OTHER -> FALSE

\* C28: break/continue patching.  Once the loops are closed every jump a
\* Break or Continue emitted is rewritten, a break to the first instruction
\* after its innermost loop, a continue to that loop's start (While) or
\* increment sequence (For), and loop_count is the loop stack depth.
C28_BreakPatching ==
    (phase = "generated" /\ ~gen.fatal) =>
      /\ \A i \in 1..Len(gen.functions) :
           Patched(gen.functions[i].instructions)
      /\ gen.loop_count = Len(gen.loop_stack)

\* let x = 0; while x < 2 { while x < 2 { x = x + 1; break } } was lowered
C28_Witness ==
    /\ phase = "generated"
    /\ ~gen.fatal
    /\ tree = Main(<<Let("x", IntLit(0)),
                     While(Cond, Braced(<<While(Cond,
                                                Braced(<<Incr,
                                                         Leaf("Break")>>))>>))
                   >>)
    /\ \E j \in InstrsOf(gen, 1, {"jmp"}) :
         gen.functions[1].instructions[j].comment = "# break"

\* the value on top of the stack after the step
TopAfter ==
    LET f == stack_frame'[Len(stack_frame')] IN stack'[f.start_sp + f.sp]

\* C29: neg pops a value and pushes its negation: a number gives the
\* negated number of the same variant, a Bool b gives Bool(not b).
C29_Neg ==
    [][(Fetched = "neg" /\ stack_frame[Len(stack_frame)].sp >= 1
          /\ (Numeric(First.tag) \/ First.tag = "Bool")) =>
        /\ status' = "running"
        /\ stack_frame'[Len(stack_frame)].sp = stack_frame[Len(stack_frame)].sp
        /\ TopAfter = IF First.tag = "Bool" THEN BoolObj(First.data = 0)
                      ELSE Obj(First.tag, 0 - First.data)]_vars

\* C30: array literal order.  The elements are lowered in reverse source
\* order before newarray n; executing it lowers the stack by n - 1 and
\* leaves a Table of length n with get(i) the value of element i.
C30_ArrayLiteral ==
    [][(Fetched = "newarray" /\ tree \in ArrayLitProgs) =>
        \A elems \in ElemSeqs :
          tree = ArrayLitProg(elems) =>
            LET n == Len(elems)
                is == gen.functions[1].instructions
                t == TopAfter.table[1]
            IN  /\ \A k \in 1..n :
                     is[k].op = "push" /\ is[k].arg = elems[n + 1 - k]
                /\ is[n + 1].op = "newarray" /\ is[n + 1].arg = n
                /\ status' = "running"
                /\ stack_frame'[Len(stack_frame)].sp
                     = stack_frame[Len(stack_frame)].sp - (n - 1)
                /\ TopAfter.tag = "Array"
                /\ t.array_length = n
                /\ \A i \in 0..n - 1 : TableGet(t, i) = <<IntObj(elems[i + 1])>>
                /\ TableGet(t, n) = <<>>]_vars

\* let a = [1, 2, 6] has run up to its store
C30_Witness ==
    /\ Running
    /\ tree = ArrayLitProg(<<1, 2, 6>>)
    /\ Fetched = "store"
    /\ First = ArrObj([array |-> <<IntObj(1), IntObj(2), IntObj(6)>>,
                       array_length |-> 3, hash |-> {}])

\* C31: parameter slots.  A function with parameters p0..p(a-1) gets the
\* arity header a and reads parameter pi from slot i, however many
\* variables the entry function has declared before the definition.
C31_ParameterSlots ==
    (phase = "generated" /\ tree \in ParamProgs) =>
      \A n \in 0..MaxLets, a \in 1..2 :
        tree = ParamProg(n, a) =>
          /\ ~gen.fatal
          /\ Len(gen.functions) = 2
          /\ gen.functions[2].name = "f"
          /\ gen.functions[2].arity = a
          /\ \A i \in 1..a :
               LET instr == gen.functions[2].instructions[2 * i - 1]
               IN  instr.op = "load" /\ instr.arg = i - 1

\* every function the tree defines owns one code buffer of its own
OwnCode(g, defined) ==
    /\ \A i \in 1..Len(g.functions), j \in 1..Len(g.functions) :
         i # j => g.functions[i].name # g.functions[j].name
    /\ \A i \in 1..Len(g.functions) :
         g.functions[i].name \in defined =>
           /\ g.functions[i].constructed
           /\ Cardinality(InstrsOf(g, i, {"return", "halt"})) = 1

\* C32: subroutine indices.  get_function_index gives an unregistered name
\* the index of the entry it appends and a registered name its own index:
\* distinct names have distinct indices and the body of each defined
\* function is emitted into its own code buffer only.
C32_SubroutineIndices ==
    (phase = "generated" /\ ~gen.fatal) =>
      OwnCode(gen, NamesOf(tree, "Function"))

RECURSIVE CallsIn(_)
RECURSIVE CallsInAll(_, _)
\* the Call nodes of a statement, nested function definitions left out
CallsIn(node) ==
    IF node.type = "Function" THEN 0
    ELSE (IF node.type = "Call" THEN 1 ELSE 0) + CallsInAll(node.children, 1)

CallsInAll(ch, i) ==
    IF i > Len(ch) THEN 0 ELSE CallsIn(ch[i]) + CallsInAll(ch, i + 1)

\* the statements of the entry function
MainBody(root) == root.children[1].children[1].children

\* C33: lowering a Call leaves func_ptr alone: the `call` and everything
\* after it are appended to the function that was current before the Call,
\* also for a name that is not yet registered.
C33_CallKeepsFunction ==
    (phase = "generated" /\ ~gen.fatal) =>
      LET is == gen.functions[1].instructions
      IN  /\ Cardinality(InstrsOf(gen, 1, {"call"}))
              = CallsInAll(MainBody(tree), 1)
          /\ Len(is) > 0
          /\ is[Len(is)].op = "halt"

\* the open scopes that declare a name
Declaring(name) == {i \in 1..Len(probe) : probe[i][name] # -1}

\* C34: name resolution.  get_variable(name) is the slot store_variable
\* returned for the most recent declaration of the name in the innermost
\* open scope declaring it (so after two `let x` in one scope, the slot of
\* the second), and a name no open scope declares is fatal.
C34_NameResolution ==
    phase = "scopes" =>
      \A name \in Names :
        IF Declaring(name) = {} THEN get_variable(gen, name) = -1
        ELSE \E i \in Declaring(name) :
               /\ \A j \in Declaring(name) : j <= i
               /\ get_variable(gen, name) = probe[i][name]

\* C35: VM reuse.  Every add_code(image); run() on a Vm that has run before
\* loads that image from its first byte and starts subroutine 0 of that
\* image at ip 0; nothing left over from the earlier runs is used.
C35_VmReuse ==
    [][(phase = "loaded" /\ status = "halted" /\ status' # "halted") =>
        LET loaded == load_subs(image', 0)
            f == stack_frame'[Len(stack_frame')]
        IN  /\ status' = "running"
            /\ f.function = loaded.subs[1]
            /\ f.ip = 0
            /\ f.start_sp = f.function.slots
            /\ f.sp = f.function.slots]_vars

\* C36: locals are not clobbered by operands.  In every frame a push of an
\* operand writes a cell above the frame's local slots 0..slots-1, so a
\* `load k` after a `store k` reads the stored value.
C36_LocalsKept ==
    [][(/\ Running
        /\ status' = "running"
        /\ Len(stack_frame') = Len(stack_frame)
        /\ stack_frame'[Len(stack_frame)].sp
             = stack_frame[Len(stack_frame)].sp + 1) =>
        stack_frame[Len(stack_frame)].sp
          >= stack_frame[Len(stack_frame)].function.slots]_vars

\* the instructions of the generator that start at the ip of the running
\* frame, in a function whose code the frame runs
AtIp ==
    LET f == stack_frame[Len(stack_frame)]
    IN  {instr \in UNION {{gen.functions[i].instructions[j] :
                             j \in 1..Len(gen.functions[i].instructions)} :
                          i \in {k \in 1..Len(gen.functions) :
                                   /\ k <= Len(functions)
                                   /\ functions[k] = f.function}} :
           instr.start_location = f.ip}

\* the running frame has code left at its ip
InCode ==
    stack_frame[Len(stack_frame)].ip
      < Len(stack_frame[Len(stack_frame)].function.code)

\* C37: generator and VM agree on instruction width.  Inside the code the
\* VM always fetches at a byte offset the generator recorded for an
\* instruction of that mnemonic, and executing it without jumping advances
\* ip by the size the generator added to current_location; in any image
\* that advance is the size the generator records for the mnemonic.
C37_InstructionWidth ==
    [][/\ (Running /\ tree # NoTree /\ InCode) =>
          \E instr \in AtIp :
            /\ Fetched = instr.op
            /\ (/\ status' = "running"
                /\ Len(stack_frame') = Len(stack_frame)
                /\ Fetched # "jmp") =>
                 \/ stack_frame'[Len(stack_frame)].ip
                      = stack_frame[Len(stack_frame)].ip
                          + instr.instruction_size
                 \/ /\ Fetched = "jmpfalse"
                    /\ stack_frame'[Len(stack_frame)].ip = instr.arg
       /\ (/\ Fetched \notin {"", "jmp"}
           /\ status' = "running"
           /\ Len(stack_frame') = Len(stack_frame)
           /\ ~(Fetched = "jmpfalse" /\ First = BoolObj(FALSE))) =>
            stack_frame'[Len(stack_frame)].ip
              = stack_frame[Len(stack_frame)].ip + Size(Fetched)]_vars

\* if 2 > 3 {...} else { print "no" } endif: the jump over the then-body
\* has landed on the spush of the else-body
C37_Witness ==
    /\ Running
    /\ tree = IfProg(2, 3, TRUE)
    /\ Fetched = "spush"
    /\ output = <<>>
    /\ \E instr \in AtIp : instr.op = "spush" /\ instr.instruction_size = 6

\* start_location is the sum of the sizes before, current_location the sum
\* of all sizes (the bytes of the .sub header)
Bookkept(g) ==
    \A i \in 1..Len(g.functions) :
      LET f == g.functions[i]
      IN  /\ \A j \in 1..Len(f.instructions) :
               f.instructions[j].start_location
                 = SumSizes(SubSeq(f.instructions, 1, j - 1), 1)
          /\ f.current_location = calculate_bytes(f)

\* C38: offset bookkeeping.  After any sequence of generate() and clear()
\* on one IrGenerator, in every function each instruction's start_location
\* is the sum of the sizes of the instructions before it and
\* current_location is the sum of all sizes.
C38_OffsetBookkeeping == phase = "repl" => Bookkept(gen)

\* the indices below array_length that also have a key in the sparse part
Stale(t) ==
    {i \in 0..t.array_length - 1 : \E p \in t.hash : p[1] = to_string(i)}

\* C39: Table representation invariant.  After any sequence of push and
\* set, array_length is the number of elements of the dense array and every
\* key of the sparse part is an index at or above array_length.
C39_TableRepresentation ==
    phase = "table" =>
      /\ probe.table.array_length = Len(probe.table.array)
      /\ Stale(probe.table) = {}

====
